---- MODULE Spec2Model ----
(***************************************************************************)
(* infotainer: a WebSocket-fronted publish/subscribe broker with a durable *)
(* per-subscription publication log.                                       *)
(*                                                                         *)
(* Actors and their state                                                  *)
(*   PubSubServer   (src/src/pubsub.rs)    store, sessions, brokerQ        *)
(*   DataLogger     (src/src/data_log.rs)  log_index, disk, logQ, futures  *)
(*   SessionService (src/src/sessions.rs)  registry, sessQ                 *)
(*   WebSocketSession (src/src/websocket.rs) connected, inbox              *)
(* Every actor handles the messages of its mailbox one at a time, in       *)
(* arrival order; a handler is one atomic action.                          *)
(***************************************************************************)
EXTENDS Integers, Sequences, FiniteSets, TLC

\* ------------------------------------------------------------------ bounds
\* Client ids, subscription ids and payloads that occur in a run; the
\* payload b2 is longer than b1.
Clients == {"c1", "c2"}
SubIds == {"s1"}
Payloads == {"b1", "b2"}

\* Number of publications made in a run.  Publication ids (Uuid::new_v4 in
\* the source, collision free) are the fresh numbers 1, 2, ...
MaxSubmits == 2
\* Number of GetLogIndex / GetLogEntries frames sent in a run.
MaxLogReqs == 1
\* A new connection, command or frame arrives only while fewer than this many
\* messages and futures are pending in the whole system.
MaxPending == 1

PubIds == 1..MaxSubmits

\* "absent" values of Option / HashMap::get
None == "none"
NoSub == [absent |-> TRUE]
NoPub == [absent |-> TRUE]
NoReply == [type |-> "none"]
NoFrame == [type |-> "none"]
\* A log directory without a file `subscribers`
NoSubscribers == [file |-> FALSE]

\* Frames an endpoint writes to its socket: ctx.ping(b""), ctx.pong(&msg),
\* ctx.text(..), ctx.binary(..)
PingFrame == [type |-> "Ping", payload |-> ""]
PongFrame(payload) == [type |-> "Pong", payload |-> payload]
TextFrame(text) == [type |-> "Text", payload |-> text]
BinaryFrame(payload) == [type |-> "Binary", payload |-> payload]
\* ctx.close(reason)
CloseFrame(reason) == [type |-> "Close", payload |-> reason]

\* The address of an endpoint is named by the client id it was connected
\* with; "c1b" is a second connection opened with the client id c1.
Addrs == Clients
Endpoints == Addrs \cup {"c1b"}
\* WebSocketSession.id: the id of the connect URL, set by WebSocketSession::new
id_of(a) == IF a = "c1b" THEN "c1" ELSE a

VARIABLES
    store,      \* PubSubServer.subscriptions.store : SubIds -> Subscription | NoSub
    sessions,   \* PubSubServer.sessions : Clients -> Addr | None
    brokerQ,    \* mailbox of the PubSubServer
    nextPub,    \* next fresh publication id
    logQ,       \* mailbox of the DataLogger
    log_index,  \* DataLogger.log_index : HashMap from log ids to sets of publication ids
    disk,       \* files <data_dir>/<log id>/publications/<publication id>
    futures,    \* DataLogIndex / DataLogFetch futures awaiting the session lookup
    sessQ,      \* mailbox of the SessionService
    registry,   \* SessionService.sessions : Clients -> Addr | None
    connected,  \* running WebSocketSession endpoints
    inbox,      \* mailbox of each endpoint
    hb,         \* per endpoint: the seconds from WebSocketSession.hb to the
                \* latest tick of its heartbeat
    wire,       \* per endpoint: the last frame it wrote to its open socket on
                \* its own account (a ping, a pong, a text or an error notice);
                \* the binary frames of the ServerMessages it is sent are the
                \* messages taken from inbox
    putRes,     \* the Result of the last Handler<DataLogPut>::handle
    data_logger, \* PubSubServer.data_logger : Option<Addr<DataLogger>>
    log_dirs,   \* the directories <data_dir>/<log id> there are, each with what
                \* its file `subscribers` holds
    socket,     \* per endpoint: the binary frames it has written for the
                \* ServerMessages it was sent, which its client has not read yet
    held,       \* per endpoint: the ids of the publications its client has
                \* read from the socket and not asked the log for yet
    stream,     \* per endpoint: the frames its client has sent which its
                \* StreamHandler has not been given yet
    \* ---- observation (history) variables, written but never read by the program
    handled,    \* the Result of the last Handler<ClientMessage>::handle: "Ok" or "Err"
    adds,       \* per subscription and client: Adds handled since its last Remove
                \* (counted up to 2)
    pubs,       \* per publication id: the subscription and data it was submitted
                \* with, and the subscribers whose endpoint had stopped when
                \* it was distributed
    logReqs,    \* number of log frames sent so far
    logDone,    \* completed DataLogIndex / DataLogFetch requests and results
    \* ---- the parts of the server as they are built and called on their own
    client_sessions, \* Sessions.store : HashMap from client ids to Vecs of subscription ids
    data_dir,   \* what the file system holds at the path given to DataLogger::new
    logger,     \* the Result of DataLogger::new
    codec,      \* a value, the frame serde_cbor made of it, the value decoded
                \* from the frame and the frame made of that
    call        \* the last call on Subscriptions or Sessions, and what it returned

vars == <<store, sessions, brokerQ, nextPub, logQ, log_index, disk, futures,
          sessQ, registry, connected, inbox, hb, wire, putRes, data_logger,
          log_dirs, socket, held, stream, handled, adds,
          pubs,
          logReqs, logDone,
          client_sessions, data_dir, logger, codec, call>>

brokerVars == <<store, sessions, brokerQ, nextPub, handled, adds, pubs>>
loggerVars == <<logQ, log_index, disk, futures, logDone>>
sessionVars == <<sessQ, registry>>
endpointVars == <<connected, inbox>>
unitVars == <<client_sessions, data_dir, logger, codec, call>>

\* ----------------------------------------------------------------- helpers
Range(f) == {f[i] : i \in DOMAIN f}

RECURSIVE Count(_, _)
Count(seq, x) ==
    IF seq = <<>> THEN 0
    ELSE (IF Head(seq) = x THEN 1 ELSE 0) + Count(Tail(seq), x)

\* Vec::iter().position(): index of the first element equal to x, 0 if none
RECURSIVE Position(_, _, _)
Position(seq, x, i) ==
    IF i > Len(seq) THEN 0
    ELSE IF seq[i] = x THEN i
    ELSE Position(seq, x, i + 1)

\* Vec::remove(index)
RemoveAt(seq, i) == SubSeq(seq, 1, i - 1) \o SubSeq(seq, i + 1, Len(seq))

\* ------------------------------------------------- Subscription, Subscriptions
\* Subscription::new
Subscription_new(id, name) ==
    [id |-> id, name |-> name, subscribers |-> <<>>, log |-> {}]

\* append_subscriber without the `contains` test: every Add pushes
append_subscriber_push(sub, subscriber) ==
    [sub EXCEPT !.subscribers = Append(@, subscriber)]

\* Subscription::append_subscriber
append_subscriber(sub, subscriber) ==
    IF Position(sub.subscribers, subscriber, 1) = 0
    THEN [sub EXCEPT !.subscribers = Append(@, subscriber)]
    ELSE sub

\* remove_subscriber that leaves the Vec as it is
remove_subscriber_keep(sub, subscriber) == sub

\* Subscription::remove_subscriber
remove_subscriber(sub, subscriber) ==
    LET sub_index == Position(sub.subscribers, subscriber, 1)
    IN  IF sub_index # 0
        THEN [sub EXCEPT !.subscribers = RemoveAt(@, sub_index)]
        ELSE sub

\* Subscriptions::fetch: the stored record, or NoSub for Err("No such entry")
fetch(st, id) == st[id]

\* Subscriptions::index: the ids of the stored records (the keys of the map)
Subscriptions_index(st) == {id \in DOMAIN st : st[id] # NoSub}

\* Subscriptions::remove: HashMap::remove
Subscriptions_remove(st, id) == [st EXCEPT ![id] = NoSub]

\* An update that keeps the record an id already has
update_absent(st, sub) ==
    IF st[sub.id] = NoSub THEN [st EXCEPT ![sub.id] = sub] ELSE st

\* Subscriptions::update: insert, silently replacing
update(st, sub) == [st EXCEPT ![sub.id] = sub]

\* ----------------------------------------------------------------- messages
\* ClientMessage { id, request }
ClientMessage(id, kind, param) ==
    [type |-> "ClientMessage", id |-> id, kind |-> kind, param |-> param]
\* ClientSubmission { id, data }
ClientSubmission(id, data) == [id |-> id, data |-> data]
\* Publication::from(&ClientSubmission): fresh id, the submitted data
Publication(fresh, submission) == [id |-> fresh, data |-> submission.data]
\* A server message that carries the id of the publication without its data
PublicationMsg_empty(publication) ==
    [type |-> "Publication", id |-> publication.id, data |-> ""]

\* ServerMessage::from(&Publication)
PublicationMsg(publication) ==
    [type |-> "Publication", id |-> publication.id, data |-> publication.data]
\* ServerMessage::from(&Response)
ResponseMsg(kind, data) == [type |-> "Response", kind |-> kind, data |-> data]
\* ServerMessage::from(&Response::List { data }): the ids of the subscriptions
ResponseList(data) == [type |-> "Response", kind |-> "List", index |-> data]
\* ServerMessage::from(&Response::Get { data }): the log of a subscription
ResponseGet(data) == [type |-> "Response", kind |-> "Get", log |-> data]
\* DataLogRequest::new(&sub.id, DataLogEntry::from(publication))
DataLogPut(log_id, publication) ==
    [type |-> "Put", data_log_id |-> log_id, entries |-> <<publication>>]

\* Addr::do_send: the message enters the mailbox of a running endpoint and is
\* dropped when the endpoint has stopped.
do_send(inb, conn, addr, msg) ==
    IF addr \in conn THEN [inb EXCEPT ![addr] = Append(@, msg)] ELSE inb

\* PubSubServer::send_response
send_response(sess, conn, inb, client_id, resp) ==
    IF sess[client_id] # None
    THEN do_send(inb, conn, sess[client_id], resp)
    ELSE inb

\* A fan-out over every session of the address book instead of the
\* subscribers of the subscription
distribute_broadcast(subscribers, sess, conn, inb, msg) ==
    [a \in DOMAIN inb |->
        IF a \in conn /\ (\E c \in DOMAIN sess : sess[c] = a)
        THEN Append(inb[a], msg) ELSE inb[a]]

\* A fan-out that gives up at the first subscriber without a session
RECURSIVE distribute_stop(_, _, _, _, _)
distribute_stop(subscribers, sess, conn, inb, msg) ==
    IF subscribers = <<>> THEN inb
    ELSE LET s == Head(subscribers)
         IN  IF sess[s] = None THEN inb
             ELSE distribute_stop(Tail(subscribers), sess, conn,
                                  do_send(inb, conn, sess[s], msg), msg)

\* The fan-out loop of PubSubServer::publish over the subscribers Vec:
\* sub.subscribers.iter().for_each(|s| if let Some(r) = sessions.get(s) { r.do_send(..) })
RECURSIVE distribute(_, _, _, _, _)
distribute(subscribers, sess, conn, inb, msg) ==
    IF subscribers = <<>> THEN inb
    ELSE LET s == Head(subscribers)
             inb1 == IF sess[s] # None THEN do_send(inb, conn, sess[s], msg) ELSE inb
         IN  distribute(Tail(subscribers), sess, conn, inb1, msg)

\* publish that does not give up on Err("No such entry") but goes on with an
\* empty subscription of that id
publish_unknown(b, submission) ==
    LET found == b.store[submission.id]
        sub == IF found = NoSub
               THEN [id |-> submission.id, name |-> "", subscribers |-> <<>>, log |-> {}]
               ELSE found
        publication == [id |-> b.nextPub, data |-> submission.data]
    IN  [result |-> "Ok",
         store |-> [b.store EXCEPT ![sub.id] = [sub EXCEPT !.log = @ \cup {publication.id}]],
         nextPub |-> b.nextPub + 1,
         logQ |-> Append(b.logQ, [type |-> "Put", data_log_id |-> sub.id,
                                  entries |-> <<publication>>]),
         inbox |-> b.inbox]

\* Subscription::log_publication: the Put is try_sent to the DataLogger and
\* the id of the publication inserted into the log of the subscription.
\* (A refused try_send is HandleSubmitPanic.)
log_publication(sub, publication, q) ==
    [sub |-> [sub EXCEPT !.log = @ \cup {publication.id}],
     logQ |-> Append(q, DataLogPut(sub.id, publication))]

\* PubSubServer::publish.  b = [store, sessions, connected, inbox, nextPub,
\* logQ, data_logger]; the result carries the fields publish changes.  With
\* a DataLogger the publication is logged and the subscription stored again;
\* without one neither happens.  The publication is sent to the subscribers
\* in both cases.
publish(b, submission) ==
    LET sub == fetch(b.store, submission.id) IN
    IF sub = NoSub
    THEN [result |-> "Err", store |-> b.store, nextPub |-> b.nextPub,
          logQ |-> b.logQ, inbox |-> b.inbox]
    ELSE LET publication == Publication(b.nextPub, submission)
             logged == log_publication(sub, publication, b.logQ)
         IN  [result |-> "Ok",
              store |-> IF b.data_logger # None
                        THEN update(b.store, logged.sub) ELSE b.store,
              nextPub |-> b.nextPub + 1,
              logQ |-> IF b.data_logger # None THEN logged.logQ ELSE b.logQ,
              inbox |-> distribute(sub.subscribers, b.sessions, b.connected,
                                   b.inbox, PublicationMsg(publication))]

\* ------------------------------------------------------------ DataLogger::new
\* What the file system holds at a path: nothing, a directory or a regular
\* file, with what access(2) grants the server on it.
PathState(path, kind, r, w, x) ==
    [path |-> path, kind |-> kind, read |-> r, write |-> w, execute |-> x]

\* PathExt::access(EXISTS | READ | WRITE | EXECUTE).is_ok()
access(p) == p.kind # "missing" /\ p.read /\ p.write /\ p.execute

\* std::fs::create_dir_all: Ok on a directory, it makes a missing one, and
\* Err(AlreadyExists) on a path that is something else
create_dir_all(p) == IF p.kind = "file" THEN "Err" ELSE "Ok"

NoLogger == [state |-> "none"]

\* A DataLogger::new that makes the data directory instead of testing the
\* access to it
DataLogger_new_create(p) ==
    IF create_dir_all(p) = "Ok"
    THEN [ok |-> TRUE, log_index |-> [s \in {} |-> {}], data_dir |-> p.path]
    ELSE [ok |-> FALSE, err |-> "FileSystem"]

\* DataLogger::new: Ok(DataLogger { log_index: HashMap::new(), data_dir })
\* or Err(DataLogError::FileSystem(..))
DataLogger_new(p) ==
    IF access(p)
    THEN IF create_dir_all(p) = "Ok"
         THEN [ok |-> TRUE, log_index |-> [s \in {} |-> {}], data_dir |-> p.path]
         ELSE [ok |-> FALSE, err |-> "FileSystem"]
    ELSE [ok |-> FALSE, err |-> "FileSystem"]

\* No call made yet, no value under the codec
NoCall == [op |-> "none"]
NoCodec == [stage |-> "none"]

\* The server as main builds it: the actors are started, with empty mailboxes
\* and maps; the store of the PubSubServer is left to the caller.
Quiet ==
    /\ sessions = [c \in Clients |-> None]
    /\ brokerQ = <<>>
    /\ nextPub = 1
    /\ logQ = <<>>
    /\ log_index = [s \in {} |-> {}]
    /\ disk = {}
    /\ futures = {}
    /\ sessQ = <<>>
    /\ registry = [c \in Clients |-> None]
    /\ connected = {}
    /\ inbox = [a \in Endpoints |-> <<>>]
    /\ hb = [a \in Endpoints |-> 0]
    /\ wire = [a \in Endpoints |-> NoFrame]
    /\ socket = [a \in Endpoints |-> <<>>]
    /\ held = [a \in Endpoints |-> {}]
    /\ stream = [a \in Endpoints |-> <<>>]
    /\ putRes = None
    /\ log_dirs = [s \in {} |-> NoSubscribers]
    /\ handled = None
    /\ adds = [s \in SubIds |-> [c \in Clients |-> 0]]
    /\ pubs = [p \in PubIds |-> NoPub]
    /\ logReqs = 0
    /\ logDone = {}

\* ------------------------------------------------------------------- Init
\* The running server: its DataLogger was made on an accessible data
\* directory; nothing is under the codec and no call was made on the stores.
\* The PubSubServer is PubSubServer::new(Some(&data_logger)),
\* PubSubServer::new(None) or PubSubServer::default(), which has no logger.
Init ==
    /\ store = [s \in SubIds |-> NoSub]
    /\ Quiet
    /\ data_logger \in {None, "DataLogger"}
    /\ client_sessions = [c \in {} |-> <<>>]
    /\ data_dir = PathState("/data", "dir", TRUE, TRUE, TRUE)
    /\ logger = DataLogger_new(data_dir)
    /\ codec = NoCodec
    /\ call = NoCall

\* The server whose pubsub actor was given the address of the DataLogger
InitLogging == Init /\ data_logger # None

\* ------------------------------------------------------ WebSocketSession
RECURSIVE SumLen(_, _)
SumLen(f, S) ==
    IF S = {} THEN 0
    ELSE LET x == CHOOSE y \in S : TRUE IN Len(f[x]) + SumLen(f, S \ {x})

\* Frames the clients have sent which no StreamHandler has been given yet
InFlight == SumLen(stream, Endpoints)

\* Messages in the mailboxes, futures not yet completed, frames not yet read
\* by the clients and frames not yet given to the endpoints
Pending == Len(brokerQ) + Len(sessQ) + Len(logQ) + Cardinality(futures)
           + SumLen(inbox, Clients) + SumLen(socket, Clients) + InFlight
Room == Pending < MaxPending

\* websocket.rs: const HEARTBEAT_INTERVAL / CLIENT_TIMEOUT, in seconds
HEARTBEAT_INTERVAL == 5
CLIENT_TIMEOUT == 10

\* hb[a] is Instant::now().duration_since(self.hb) as the latest tick of the
\* heartbeat of endpoint a has read it, in seconds; it is below that when
\* self.hb was set after that tick.  The heartbeat is started after self.hb is
\* set in WebSocketSession::new, so the first tick reads HEARTBEAT_INTERVAL
\* and Lag more.
Lag == 1

\* self.hb = Instant::now() in the arm of a received frame.  The frame comes
\* within a running interval of the heartbeat, so that the next tick reads
\* what was left of the interval: no more than HEARTBEAT_INTERVAL, which is
\* the case kept here (the frame came as the interval began).
seen(h, a) == [h EXCEPT ![a] = 0]

\* Addr::try_send returns Ok when the mailbox of the receiver takes the
\* message and Err when the mailbox is full (SendError::Full) or the receiver
\* is gone (SendError::Closed).  A mailbox of the model holds far fewer
\* messages than the mailbox of an actor takes, so whether the try_send to a
\* running actor is taken is an input of the step that makes it (`accepted`),
\* not something read from the mailbox of the model.

\* WebSocketSession::new and Actor::started: hb is the instant the endpoint
\* is made at, the heartbeat is started, and the endpoint registers itself
\* with the SessionService (try_send InsertSession).  When the try_send
\* returns Err the endpoint calls ctx.stop(): it never runs, its heartbeat
\* never ticks, and Actor::stopping sends the RemoveSession of its client id.
started(c, accepted) ==
    /\ c \notin connected
    /\ inbox' = [inbox EXCEPT ![c] = <<>>]
    /\ hb' = IF accepted THEN [hb EXCEPT ![c] = Lag] ELSE hb
    /\ wire' = [wire EXCEPT ![c] = NoFrame]
    /\ socket' = [socket EXCEPT ![c] = <<>>]
    /\ stream' = [stream EXCEPT ![c] = <<>>]
    /\ IF accepted
       THEN /\ connected' = connected \cup {c}
            /\ sessQ' = Append(sessQ, [type |-> "InsertSession", id |-> id_of(c),
                                       addr |-> c])
       ELSE /\ connected' = connected
            /\ sessQ' = Append(sessQ, [type |-> "RemoveSession", id |-> id_of(c)])

\* Actor::stopping for WebSocketSession: do_send RemoveSession; the mailbox of
\* the endpoint is dropped with its content and the connection is closed, with
\* the frames on their way in either direction.
stopping(c) ==
    /\ c \in connected
    /\ connected' = connected \ {c}
    /\ inbox' = [inbox EXCEPT ![c] = <<>>]
    /\ socket' = [socket EXCEPT ![c] = <<>>]
    /\ stream' = [stream EXCEPT ![c] = <<>>]
    /\ sessQ' = Append(sessQ, [type |-> "RemoveSession", id |-> id_of(c)])

\* ClientJoin { id, addr } and ClientDisconnect { id }
ClientJoin(id, addr) == [type |-> "ClientJoin", id |-> id, addr |-> addr]
ClientDisconnect(id) == [type |-> "ClientDisconnect", id |-> id]

\* A connection is opened: the endpoint starts, and the PubSubServer is told
\* of the session ("create a session on the PubSubServer") by a ClientJoin.
\* An endpoint that could not register stops at once and no session is made.
Connect(c) ==
    /\ Room
    /\ \E accepted \in BOOLEAN :
          /\ started(c, accepted)
          /\ brokerQ' = IF accepted THEN Append(brokerQ, ClientJoin(c, c))
                        ELSE brokerQ
    /\ UNCHANGED <<store, sessions, nextPub, handled, adds, pubs,
                   loggerVars, registry, putRes, logReqs>>
    /\ UNCHANGED <<held, data_logger, log_dirs, unitVars>>

\* A connection is closed, at any time: the endpoint stops, and the
\* PubSubServer is told by a ClientDisconnect.
Disconnect(c) ==
    /\ stopping(c)
    /\ wire' = [wire EXCEPT ![c] = NoFrame]
    /\ UNCHANGED <<hb, putRes>>
    /\ brokerQ' = Append(brokerQ, ClientDisconnect(c))
    /\ UNCHANGED <<store, sessions, nextPub, handled, adds, pubs,
                   loggerVars, registry, logReqs>>
    /\ UNCHANGED <<held, data_logger, log_dirs, unitVars>>

\* Handler<ServerMessage<..>> for WebSocketSession: the message at the head of
\* the mailbox is written to the client as a binary frame (the frame
\* serde_cbor::to_vec makes of it, named here by the message it carries).
\* self.hb is not touched.
EndpointHandle(c) ==
    /\ c \in connected
    /\ inbox[c] # <<>>
    /\ inbox' = [inbox EXCEPT ![c] = Tail(@)]
    /\ socket' = [socket EXCEPT ![c] = Append(@, BinaryFrame(Head(inbox[c])))]
    /\ UNCHANGED <<brokerVars, loggerVars, sessionVars, connected, logReqs>>
    /\ UNCHANGED <<hb, wire, putRes>>
    /\ UNCHANGED <<held, data_logger, stream, log_dirs, unitVars>>

\* The client reads the next frame its endpoint has written and sends nothing
\* for it.
ClientRead(c) ==
    /\ socket[c] # <<>>
    /\ socket' = [socket EXCEPT ![c] = Tail(@)]
    /\ UNCHANGED <<brokerVars, loggerVars, sessionVars, endpointVars, logReqs>>
    /\ UNCHANGED <<hb, wire, putRes>>
    /\ UNCHANGED <<held, data_logger, stream, log_dirs, unitVars>>

\* ------------------------------------------------ arrival of ClientMessages
\* A ClientMessage is put into the mailbox of the PubSubServer.
SendAdd(c, s) ==
    /\ Room
    /\ brokerQ' = Append(brokerQ, ClientMessage(c, "Add", s))
    /\ UNCHANGED <<store, sessions, nextPub, handled, adds, pubs,
                   loggerVars, sessionVars, endpointVars, logReqs>>
    /\ UNCHANGED <<hb, wire, putRes>>
    /\ UNCHANGED <<held, data_logger, stream, log_dirs, socket, unitVars>>

SendRemove(c, s) ==
    /\ Room
    /\ brokerQ' = Append(brokerQ, ClientMessage(c, "Remove", s))
    /\ UNCHANGED <<store, sessions, nextPub, handled, adds, pubs,
                   loggerVars, sessionVars, endpointVars, logReqs>>
    /\ UNCHANGED <<hb, wire, putRes>>
    /\ UNCHANGED <<held, data_logger, stream, log_dirs, socket, unitVars>>

SendList(c) ==
    /\ Room
    /\ brokerQ' = Append(brokerQ, ClientMessage(c, "List", None))
    /\ UNCHANGED <<store, sessions, nextPub, handled, adds, pubs,
                   loggerVars, sessionVars, endpointVars, logReqs>>
    /\ UNCHANGED <<hb, wire, putRes>>
    /\ UNCHANGED <<held, data_logger, stream, log_dirs, socket, unitVars>>

SendGet(c, s) ==
    /\ Room
    /\ brokerQ' = Append(brokerQ, ClientMessage(c, "Get", s))
    /\ UNCHANGED <<store, sessions, nextPub, handled, adds, pubs,
                   loggerVars, sessionVars, endpointVars, logReqs>>
    /\ UNCHANGED <<hb, wire, putRes>>
    /\ UNCHANGED <<held, data_logger, stream, log_dirs, socket, unitVars>>

IsSubmit(m) == m.type = "ClientMessage" /\ m.kind = "Submit"

SendSubmit(c, s, data) ==
    /\ Room
    /\ nextPub + Len(SelectSeq(brokerQ, IsSubmit)) <= MaxSubmits
    /\ brokerQ' = Append(brokerQ, ClientMessage(c, "Submit", ClientSubmission(s, data)))
    /\ UNCHANGED <<store, sessions, nextPub, handled, adds, pubs,
                   loggerVars, sessionVars, endpointVars, logReqs>>
    /\ UNCHANGED <<hb, wire, putRes>>
    /\ UNCHANGED <<held, data_logger, stream, log_dirs, socket, unitVars>>

\* -------------------------------------------------------------- PubSubServer
\* The PubSubServer actor runs until a handler of it panics.
Running == handled # "Panic"

\* Handler<ClientJoin>
HandleClientJoin ==
    /\ Running
    /\ brokerQ # <<>> /\ Head(brokerQ).type = "ClientJoin"
    /\ sessions' = [sessions EXCEPT ![Head(brokerQ).id] = Head(brokerQ).addr]
    /\ brokerQ' = Tail(brokerQ)
    /\ UNCHANGED <<store, nextPub, handled, adds, pubs, loggerVars,
                   sessionVars, endpointVars, logReqs>>
    /\ UNCHANGED <<hb, wire, putRes>>
    /\ UNCHANGED <<held, data_logger, stream, log_dirs, socket, unitVars>>

\* A ClientDisconnect that also takes the client out of the subscribers of
\* every subscription
HandleClientDisconnectPurge ==
    /\ Running
    /\ brokerQ # <<>> /\ Head(brokerQ).type = "ClientDisconnect"
    /\ sessions' = [sessions EXCEPT ![Head(brokerQ).id] = None]
    /\ store' = [s \in SubIds |->
                   IF store[s] = NoSub THEN NoSub
                   ELSE remove_subscriber(store[s], Head(brokerQ).id)]
    /\ brokerQ' = Tail(brokerQ)
    /\ UNCHANGED <<nextPub, handled, adds, pubs, loggerVars,
                   sessionVars, endpointVars, hb, wire, putRes, logReqs>>
    /\ UNCHANGED <<held, data_logger, stream, log_dirs, socket, unitVars>>

\* Handler<ClientDisconnect>
HandleClientDisconnect ==
    /\ Running
    /\ brokerQ # <<>> /\ Head(brokerQ).type = "ClientDisconnect"
    /\ sessions' = [sessions EXCEPT ![Head(brokerQ).id] = None]
    /\ brokerQ' = Tail(brokerQ)
    /\ UNCHANGED <<store, nextPub, handled, adds, pubs, loggerVars,
                   sessionVars, endpointVars, logReqs>>
    /\ UNCHANGED <<hb, wire, putRes>>
    /\ UNCHANGED <<held, data_logger, stream, log_dirs, socket, unitVars>>

IsClientMessage(kind) ==
    /\ Running
    /\ brokerQ # <<>>
    /\ Head(brokerQ).type = "ClientMessage"
    /\ Head(brokerQ).kind = kind

\* An Add that writes a new subscription of the client over the stored one
HandleAddRecreate ==
    /\ IsClientMessage("Add")
    /\ LET msg == Head(brokerQ)
           s == append_subscriber(Subscription_new(msg.param, msg.id), msg.id)
       IN  /\ store' = update(store, s)
           /\ inbox' = send_response(sessions, connected, inbox, msg.id,
                                     ResponseMsg("Add", s.id))
           /\ handled' = "Ok"
           /\ adds' = [adds EXCEPT ![msg.param][msg.id] = IF @ < 2 THEN @ + 1 ELSE @]
    /\ brokerQ' = Tail(brokerQ)
    /\ UNCHANGED <<sessions, nextPub, pubs, loggerVars, sessionVars, connected,
                   hb, wire, putRes, logReqs>>
    /\ UNCHANGED <<held, data_logger, stream, log_dirs, socket, unitVars>>

\* Handler<ClientMessage>, ClientRequest::Add
HandleAdd ==
    /\ IsClientMessage("Add")
    /\ LET msg == Head(brokerQ)
           found == fetch(store, msg.param)
           s == IF found # NoSub
                THEN append_subscriber(found, msg.id)
                ELSE append_subscriber(Subscription_new(msg.param, msg.id), msg.id)
       IN  /\ store' = update(store, s)
           /\ inbox' = send_response(sessions, connected, inbox, msg.id,
                                     ResponseMsg("Add", s.id))
           /\ handled' = "Ok"
           /\ adds' = [adds EXCEPT ![msg.param][msg.id] = IF @ < 2 THEN @ + 1 ELSE @]
    /\ brokerQ' = Tail(brokerQ)
    /\ UNCHANGED <<sessions, nextPub, pubs, loggerVars, sessionVars, connected,
                   logReqs>>
    /\ UNCHANGED <<hb, wire, putRes>>
    /\ UNCHANGED <<held, data_logger, stream, log_dirs, socket, unitVars>>

\* A Remove that also drops the log of the subscription it empties from
\* the DataLogger
HandleRemovePurge ==
    /\ IsClientMessage("Remove")
    /\ LET msg == Head(brokerQ)
           found == fetch(store, msg.param)
           left == IF found # NoSub THEN remove_subscriber(found, msg.id) ELSE found
       IN  /\ store' = IF found # NoSub THEN update(store, left) ELSE store
           /\ inbox' = send_response(sessions, connected, inbox, msg.id,
                          ResponseMsg("Remove",
                                      IF found # NoSub THEN found.id ELSE msg.id))
           /\ log_index' = IF found # NoSub /\ left.subscribers = <<>>
                           THEN [k \in DOMAIN log_index \ {msg.param} |-> log_index[k]]
                           ELSE log_index
           /\ handled' = "Ok"
           /\ adds' = [adds EXCEPT ![msg.param][msg.id] = 0]
    /\ brokerQ' = Tail(brokerQ)
    /\ UNCHANGED <<sessions, nextPub, pubs, logQ, disk, futures, logDone,
                   sessionVars, connected, hb, wire, putRes, logReqs>>
    /\ UNCHANGED <<held, data_logger, stream, log_dirs, socket, unitVars>>

\* Handler<ClientMessage>, ClientRequest::Remove
HandleRemove ==
    /\ IsClientMessage("Remove")
    /\ LET msg == Head(brokerQ)
           found == fetch(store, msg.param)
       IN  /\ store' = IF found # NoSub
                       THEN update(store, remove_subscriber(found, msg.id))
                       ELSE store
           /\ inbox' = send_response(sessions, connected, inbox, msg.id,
                          ResponseMsg("Remove",
                                      IF found # NoSub THEN found.id ELSE msg.id))
           /\ handled' = "Ok"
           /\ adds' = [adds EXCEPT ![msg.param][msg.id] = 0]
    /\ brokerQ' = Tail(brokerQ)
    /\ UNCHANGED <<sessions, nextPub, pubs, loggerVars, sessionVars, connected,
                   logReqs>>
    /\ UNCHANGED <<hb, wire, putRes>>
    /\ UNCHANGED <<held, data_logger, stream, log_dirs, socket, unitVars>>

\* Handler<ClientMessage>, ClientRequest::List: the ids of the stored
\* subscriptions are sent to the client
HandleList ==
    /\ IsClientMessage("List")
    /\ inbox' = send_response(sessions, connected, inbox, Head(brokerQ).id,
                              ResponseList(Subscriptions_index(store)))
    /\ handled' = "Ok"
    /\ brokerQ' = Tail(brokerQ)
    /\ UNCHANGED <<store, sessions, nextPub, adds, pubs, loggerVars,
                   sessionVars, connected, logReqs>>
    /\ UNCHANGED <<hb, wire, putRes>>
    /\ UNCHANGED <<held, data_logger, stream, log_dirs, socket, unitVars>>

\* PubSubServer::dump_log: the log of the subscription, or NoSub for the Err
\* of fetch
dump_log(st, subscription_id) ==
    IF fetch(st, subscription_id) = NoSub THEN NoSub
    ELSE [log |-> fetch(st, subscription_id).log]

\* Handler<ClientMessage>, ClientRequest::Get: self.dump_log(&param)?, the
\* log is sent to the client; for an id the store does not hold the handler
\* returns the Err and sends nothing
HandleGet ==
    /\ IsClientMessage("Get")
    /\ LET msg == Head(brokerQ)
           dumped == dump_log(store, msg.param)
       IN  /\ inbox' = IF dumped # NoSub
                       THEN send_response(sessions, connected, inbox, msg.id,
                                          ResponseGet(dumped.log))
                       ELSE inbox
           /\ handled' = IF dumped # NoSub THEN "Ok" ELSE "Err"
    /\ brokerQ' = Tail(brokerQ)
    /\ UNCHANGED <<store, sessions, nextPub, adds, pubs, loggerVars,
                   sessionVars, connected, logReqs>>
    /\ UNCHANGED <<hb, wire, putRes>>
    /\ UNCHANGED <<held, data_logger, stream, log_dirs, socket, unitVars>>

\* The subscribers of sub that have an address in the map sess whose endpoint
\* has stopped
Gone(sub, sess, conn) ==
    IF sub = NoSub THEN {}
    ELSE {c \in Range(sub.subscribers) : sess[c] # None /\ sess[c] \notin conn}

\* Handler<ClientMessage>, ClientRequest::Submit: self.publish(&param)?, then
\* Response::Empty to the sender
HandleSubmit ==
    /\ IsClientMessage("Submit")
    /\ LET msg == Head(brokerQ)
           found == fetch(store, msg.param.id)
           r == publish([store |-> store, sessions |-> sessions,
                         connected |-> connected, inbox |-> inbox,
                         nextPub |-> nextPub, logQ |-> logQ,
                         data_logger |-> data_logger], msg.param)
       IN  /\ store' = r.store
           /\ nextPub' = r.nextPub
           /\ logQ' = r.logQ
           /\ inbox' = IF r.result = "Ok"
                       THEN send_response(sessions, connected, r.inbox, msg.id,
                                          ResponseMsg("Empty", None))
                       ELSE r.inbox
           /\ handled' = r.result
           /\ pubs' = IF r.result = "Ok"
                      THEN [pubs EXCEPT ![nextPub] =
                              [sub |-> msg.param.id, data |-> msg.param.data,
                               gone |-> Gone(found, sessions, connected)]]
                      ELSE pubs
    /\ brokerQ' = Tail(brokerQ)
    /\ UNCHANGED <<sessions, adds, log_index, disk, futures, logDone,
                   sessionVars, connected, logReqs>>
    /\ UNCHANGED <<hb, wire, putRes>>
    /\ UNCHANGED <<held, data_logger, stream, log_dirs, socket, unitVars>>

\* A Submit that distributes the publication to the subscribers first and
\* finds the mailbox of the DataLogger refusing the Put afterwards
HandleSubmitPanicIssued ==
    /\ IsClientMessage("Submit")
    /\ data_logger # None
    /\ fetch(store, Head(brokerQ).param.id) # NoSub
    /\ inbox' = distribute(fetch(store, Head(brokerQ).param.id).subscribers,
                           sessions, connected, inbox,
                           PublicationMsg(Publication(nextPub, Head(brokerQ).param)))
    /\ handled' = "Panic"
    /\ brokerQ' = Tail(brokerQ)
    /\ UNCHANGED <<store, sessions, nextPub, adds, pubs, loggerVars,
                   sessionVars, connected, hb, wire, putRes, logReqs>>
    /\ UNCHANGED <<held, data_logger, stream, log_dirs, socket, unitVars>>

\* Handler<ClientMessage>, ClientRequest::Submit, of a server with a
\* DataLogger when data_log.try_send in log_publication returns Err (the
\* mailbox of the DataLogger is full or closed): publish unwraps the Err and
\* the handler panics before the subscription is updated and before anything
\* is distributed.
HandleSubmitPanic ==
    /\ IsClientMessage("Submit")
    /\ data_logger # None
    /\ fetch(store, Head(brokerQ).param.id) # NoSub
    /\ handled' = "Panic"
    /\ brokerQ' = Tail(brokerQ)
    /\ UNCHANGED <<store, sessions, nextPub, adds, pubs, loggerVars,
                   sessionVars, endpointVars, hb, wire, putRes, logReqs>>
    /\ UNCHANGED <<held, data_logger, stream, log_dirs, socket, unitVars>>

\* ---------------------------------------------------------------- DataLogger
\* The bytes serde_cbor::to_writer writes for a publication.  The encoding of
\* a publication begins with what does not depend on its payload (the map
\* header, the keys and the id: "head"); what follows differs from its first
\* byte on between two payloads (the length of the payload comes first), and
\* b2 is the longer payload.
encoded(item) ==
    <<"head">> \o (IF item.data = "b1" THEN <<"x">> ELSE <<"y", "z">>)
encoded_len(item) == Len(encoded(item))

\* The file <data_dir>/<log id>/publications/<publication id> with the bytes
\* it holds.  File(log_id, item) is the file that holds the encoding of item
\* and nothing else.
File(log_id, item) ==
    [log |-> log_id, id |-> item.id, bytes |-> encoded(item)]

\* OpenOptions::new().create(true).write(true).open(..): a file that is not
\* there is created empty; a file that is there is opened as it is, it is
\* not truncated
open_file(dsk, log_id, id) ==
    IF \E f \in dsk : f.log = log_id /\ f.id = id THEN dsk
    ELSE dsk \cup {[log |-> log_id, id |-> id, bytes |-> <<>>]}

\* The first n bytes of `new` written from the start of a file that held
\* `old`: what the file held beyond them stays
written_over(old, new, n) == SubSeq(new, 1, n) \o SubSeq(old, n + 1, Len(old))

\* A serde_cbor::to_writer(entry_file, &item) that returns Err after `part`
\* bytes of the encoding have reached the opened file (none, or any number
\* short of the whole): these bytes stay in the file
to_writer_part(dsk, log_id, item, part) ==
    {IF f.log = log_id /\ f.id = item.id
     THEN [f EXCEPT !.bytes = written_over(@, encoded(item), part)]
     ELSE f : f \in dsk}

\* serde_cbor::to_writer(entry_file, &item) on the opened file returning Ok:
\* the encoding is written from the start of the file, and what the file
\* held beyond the length of the encoding stays
to_writer(dsk, log_id, item) ==
    to_writer_part(dsk, log_id, item, encoded_len(item))

\* open and to_writer, both returning Ok
write_file(dsk, log_id, item) ==
    to_writer(open_file(dsk, log_id, item.id), log_id, item)

\* serde_cbor::from_reader(&entry_file) returns the publication when the file
\* holds one encoding and nothing else; an empty file or a part of an
\* encoding (EOF) and a file with bytes after the encoding (trailing data)
\* are errors
decodes(f) == \E d \in Payloads : f.bytes = encoded([id |-> f.id, data |-> d])
from_reader(f) ==
    [id |-> f.id,
     data |-> CHOOSE d \in Payloads : f.bytes = encoded([id |-> f.id, data |-> d])]

\* HashMap::entry(log_id).or_insert(HashSet::new()).insert(id)
index_insert(index, log_id, id) ==
    [k \in DOMAIN index \cup {log_id} |->
        IF k = log_id
        THEN (IF log_id \in DOMAIN index THEN index[log_id] ELSE {}) \cup {id}
        ELSE index[k]]

\* A Put loop that passes over the entry it fails at and writes the others
RECURSIVE put_entries_skip(_, _, _, _, _, _)
put_entries_skip(log, log_id, entries, written, failure, part) ==
    IF entries = <<>> THEN log
    ELSE IF written = 0
         THEN put_entries_skip(log, log_id, Tail(entries), written - 1, failure, part)
         ELSE LET item == Head(entries)
              IN  put_entries_skip(
                      [log_index |-> index_insert(log.log_index, log_id, item.id),
                       disk |-> write_file(log.disk, log_id, item)],
                      log_id, Tail(entries), written - 1, failure, part)

\* A Put loop that inserts the id of an entry into the index before the file
\* of the entry is written: the entry at which the loop fails is indexed
RECURSIVE put_entries_unwritten(_, _, _, _, _, _)
put_entries_unwritten(log, log_id, entries, written, failure, part) ==
    IF entries = <<>> THEN log
    ELSE LET item == Head(entries)
             index1 == index_insert(log.log_index, log_id, item.id)
         IN  IF written = 0 THEN [log_index |-> index1, disk |-> log.disk]
             ELSE put_entries_unwritten(
                      [log_index |-> index1,
                       disk |-> write_file(log.disk, log_id, item)],
                      log_id, Tail(entries), written - 1, failure, part)

\* The loop of Handler<DataLogPut> over DataLogEntry::Publications(entries).
\* Every entry is opened, written and then inserted into the index, in the
\* order of the Vec.  The loop ends at the first Err: after `written` entries
\* `failure` names the call that returns it, "open" (nothing is left of the
\* entry) or "to_writer" (the file of the entry was opened before, and
\* `part` bytes of the encoding were written to it).
RECURSIVE put_entries(_, _, _, _, _, _)
put_entries(log, log_id, entries, written, failure, part) ==
    IF entries = <<>> THEN log
    ELSE IF written = 0
         THEN IF failure = "to_writer"
              THEN [log EXCEPT !.disk =
                       to_writer_part(open_file(@, log_id, Head(entries).id),
                                      log_id, Head(entries), part)]
              ELSE log
         ELSE LET item == Head(entries)
              IN  put_entries(
                      [log_index |-> index_insert(log.log_index, log_id, item.id),
                       disk |-> write_file(log.disk, log_id, item)],
                      log_id, Tail(entries), written - 1, failure, part)

\* std::fs::create_dir_all(<data_dir>/<log id>/publications) returning Ok:
\* the directory of the log is there afterwards
make_log_dir(dirs, log_id) ==
    [k \in DOMAIN dirs \cup {log_id} |->
        IF k \in DOMAIN dirs THEN dirs[k] ELSE NoSubscribers]

\* The DataLogError a failing call is turned into by `?`: io::Error into
\* FileSystem, serde_cbor::Error into SerializerError
put_error(failure) == IF failure = "to_writer" THEN "SerializerError" ELSE "FileSystem"

\* Handler<DataLogPut> for DataLogger, DataLogEntry::Publications: either
\* every call returns Ok, or create_dir_all fails before the loop, or the
\* open of one entry fails, or its to_writer fails with a part of the
\* encoding written.  create_dir_all(<data_dir>/<log id>/publications) makes
\* the missing directories one after the other: when it fails, the directory
\* <data_dir>/<log id> may have been made (`made`) or not.
HandlePut ==
    /\ logQ # <<>> /\ Head(logQ).type = "Put"
    /\ LET request == Head(logQ)
           log == [log_index |-> log_index, disk |-> disk]
       IN  \/ /\ log_index' = put_entries(log, request.data_log_id, request.entries,
                                          Len(request.entries), "none", 0).log_index
              /\ disk' = put_entries(log, request.data_log_id, request.entries,
                                     Len(request.entries), "none", 0).disk
              /\ log_dirs' = make_log_dir(log_dirs, request.data_log_id)
              /\ putRes' = "Ok"
           \/ \E made \in BOOLEAN :
                 /\ UNCHANGED <<log_index, disk>>
                 /\ log_dirs' = IF made
                                THEN make_log_dir(log_dirs, request.data_log_id)
                                ELSE log_dirs
                 /\ putRes' = put_error("create_dir_all")
           \/ \E written \in 0..(Len(request.entries) - 1) :
                 /\ log_index' = put_entries(log, request.data_log_id,
                                             request.entries, written, "open", 0).log_index
                 /\ disk' = put_entries(log, request.data_log_id,
                                        request.entries, written, "open", 0).disk
                 /\ log_dirs' = make_log_dir(log_dirs, request.data_log_id)
                 /\ putRes' = put_error("open")
           \/ \E written \in 0..(Len(request.entries) - 1) :
              \E part \in 0..(encoded_len(request.entries[written + 1]) - 1) :
                 /\ log_index' = put_entries(log, request.data_log_id, request.entries,
                                             written, "to_writer", part).log_index
                 /\ disk' = put_entries(log, request.data_log_id, request.entries,
                                        written, "to_writer", part).disk
                 /\ log_dirs' = make_log_dir(log_dirs, request.data_log_id)
                 /\ putRes' = put_error("to_writer")
    /\ logQ' = Tail(logQ)
    /\ UNCHANGED <<brokerVars, futures, logDone, sessionVars, endpointVars,
                   logReqs>>
    /\ UNCHANGED <<hb, wire>>
    /\ UNCHANGED <<held, data_logger, stream, socket, unitVars>>

\* The file <data_dir>/<log id>/subscribers with the Vec written to it, and
\* the file when to_writer has failed: opened, with no more than a part of
\* the encoding in it
SubscribersFile(subscribers) ==
    [file |-> TRUE, written |-> TRUE, subscribers |-> subscribers]
PartSubscribersFile == [file |-> TRUE, written |-> FALSE]

\* Handler<DataLogPut> for DataLogger, DataLogEntry::Subscribers:
\* create_dir(<data_dir>/<log id>), which is an Err when the directory is
\* there, then open and to_writer of the file `subscribers`.  Neither the
\* index nor the files of the publications are touched.
HandlePutSubscribers ==
    /\ logQ # <<>> /\ Head(logQ).type = "PutSubscribers"
    /\ LET request == Head(logQ)
           made(file) == [k \in DOMAIN log_dirs \cup {request.data_log_id} |->
                            IF k = request.data_log_id THEN file ELSE log_dirs[k]]
       IN  IF request.data_log_id \in DOMAIN log_dirs
           THEN /\ log_dirs' = log_dirs
                /\ putRes' = put_error("create_dir")
           ELSE \/ /\ log_dirs' = made(SubscribersFile(request.subscribers))
                   /\ putRes' = "Ok"
                \/ /\ log_dirs' = log_dirs
                   /\ putRes' = put_error("create_dir")
                \/ /\ log_dirs' = made(NoSubscribers)
                   /\ putRes' = put_error("open")
                \/ /\ log_dirs' = made(PartSubscribersFile)
                   /\ putRes' = put_error("to_writer")
    /\ logQ' = Tail(logQ)
    /\ UNCHANGED <<brokerVars, log_index, disk, futures, logDone, sessionVars,
                   endpointVars, logReqs>>
    /\ UNCHANGED <<hb, wire>>
    /\ UNCHANGED <<held, data_logger, stream, socket, unitVars>>

\* Handler<DataLogIndex> / Handler<DataLogFetch>: the handler takes the
\* request and returns a future; nothing is sent before the future is polled.
HandlePull ==
    /\ logQ # <<>> /\ Head(logQ).type \in {"Index", "Fetch"}
    /\ futures' = futures \cup {[req |-> Head(logQ), stage |-> "new", addr |-> None]}
    /\ logQ' = Tail(logQ)
    /\ UNCHANGED <<brokerVars, log_index, disk, logDone, sessionVars,
                   endpointVars, logReqs>>
    /\ UNCHANGED <<hb, wire, putRes>>
    /\ UNCHANGED <<held, data_logger, stream, log_dirs, socket, unitVars>>

\* The first poll of the future of a DataLogIndex / DataLogFetch:
\* session_service.send(GetSessionAddr::from(&client_id)) puts the lookup in
\* the mailbox of the SessionService, and the future waits for the answer.
PollPull ==
    \E f \in futures :
       /\ f.stage = "new"
       /\ futures' = (futures \ {f}) \cup {[f EXCEPT !.stage = "lookup"]}
       /\ sessQ' = Append(sessQ, [type |-> "GetSessionAddr",
                                  id |-> f.req.client_id, no |-> f.req.no])
       /\ UNCHANGED <<brokerVars, logQ, log_index, disk, logDone, registry,
                      endpointVars, logReqs>>
       /\ UNCHANGED <<hb, wire, putRes>>
       /\ UNCHANGED <<held, data_logger, stream, log_dirs, socket, unitVars>>

\* Addr::try_send to an endpoint: Err(SendError::Closed) when it has stopped,
\* Err(SendError::Full) when it runs and its mailbox does not take the message
try_send_ok(conn, addr, accepted) == addr \in conn /\ accepted

\* The second half of the DataLogIndex future (the .map closure)
index_reply(index, conn, request, addr, accepted) ==
    IF addr # None
    THEN IF request.data_log_id \in DOMAIN index
         THEN IF try_send_ok(conn, addr, accepted)
              THEN [result |-> "Ok",
                    reply |-> [type |-> "LogIndex", ids |-> index[request.data_log_id]]]
              ELSE [result |-> "SendError", reply |-> NoReply]
         ELSE [result |-> "NoSuchDataLog", reply |-> NoReply]
    ELSE [result |-> "NoRecipient", reply |-> NoReply]

\* A read loop that reads every requested file once, at the last place its id
\* has in the request
RECURSIVE read_entries_once(_, _, _)
read_entries_once(dsk, log_id, entries) ==
    IF entries = <<>> THEN [result |-> "Ok", read |-> <<>>]
    ELSE LET files == {f \in dsk : f.log = log_id /\ f.id = Head(entries)}
             f == CHOOSE x \in files : TRUE
         IN  IF files = {} THEN [result |-> "FileSystem", read |-> <<>>]
             ELSE IF ~decodes(f) THEN [result |-> "SerializerError", read |-> <<>>]
             ELSE LET rest == read_entries_once(dsk, log_id, Tail(entries))
                  IN  IF rest.result # "Ok" THEN rest
                      ELSE [result |-> "Ok",
                            read |-> IF Head(entries) \in Range(Tail(entries))
                                     THEN rest.read
                                     ELSE <<from_reader(f)>> \o rest.read]

\* The read loop of the DataLogFetch future: the requested files are opened
\* and decoded in request order; the first file that is missing ends the
\* request with Err(FileSystem), the first that does not decode with
\* Err(SerializerError).
RECURSIVE read_entries(_, _, _)
read_entries(dsk, log_id, entries) ==
    IF entries = <<>> THEN [result |-> "Ok", read |-> <<>>]
    ELSE LET files == {f \in dsk : f.log = log_id /\ f.id = Head(entries)}
             f == CHOOSE x \in files : TRUE
         IN  IF files = {} THEN [result |-> "FileSystem", read |-> <<>>]
             ELSE IF ~decodes(f) THEN [result |-> "SerializerError", read |-> <<>>]
             ELSE LET rest == read_entries(dsk, log_id, Tail(entries))
                  IN  IF rest.result # "Ok" THEN rest
                      ELSE [result |-> "Ok",
                            read |-> <<from_reader(f)>> \o rest.read]

\* A DataLogFetch that skips the entries it cannot read and sends the others
fetch_reply_partial(dsk, conn, request, addr, accepted) ==
    LET readable(p) == \E f \in dsk : f.log = request.data_log_id /\ f.id = p
                                       /\ decodes(f)
        r == read_entries(dsk, request.data_log_id,
                          SelectSeq(request.entries, readable))
    IN  IF addr # None
        THEN IF try_send_ok(conn, addr, accepted)
             THEN [result |-> "Ok",
                   reply |-> [type |-> "LogEntry", entries |-> r.read]]
             ELSE [result |-> "SendError", reply |-> NoReply]
        ELSE [result |-> "NoRecipient", reply |-> NoReply]

\* A DataLogFetch that looks at the recipient before it reads any file
fetch_reply_recipient_first(dsk, conn, request, addr, accepted) ==
    LET r == read_entries(dsk, request.data_log_id, request.entries) IN
    IF addr = None THEN [result |-> "NoRecipient", reply |-> NoReply]
    ELSE IF r.result # "Ok" THEN [result |-> r.result, reply |-> NoReply]
    ELSE IF try_send_ok(conn, addr, accepted)
         THEN [result |-> "Ok",
               reply |-> [type |-> "LogEntry", entries |-> r.read]]
         ELSE [result |-> "SendError", reply |-> NoReply]

\* The second half of the DataLogFetch future
fetch_reply(dsk, conn, request, addr, accepted) ==
    LET r == read_entries(dsk, request.data_log_id, request.entries) IN
    IF r.result # "Ok" THEN [result |-> r.result, reply |-> NoReply]
    ELSE IF addr # None
         THEN IF try_send_ok(conn, addr, accepted)
              THEN [result |-> "Ok",
                    reply |-> [type |-> "LogEntry", entries |-> r.read]]
              ELSE [result |-> "SendError", reply |-> NoReply]
         ELSE [result |-> "NoRecipient", reply |-> NoReply]

\* A DataLogIndex / DataLogFetch future runs to its end once the
\* SessionService has answered.  The reply is try_sent to the recipient: it
\* enters the mailbox of the endpoint when the try_send returns Ok; when it
\* returns Err nothing is sent and the request ends with
\* Err(DataLogRequest(..)).
CompletePull(f) ==
    /\ f \in futures /\ f.stage = "ready"
    /\ \E accepted \in BOOLEAN :
       LET r == IF f.req.type = "Index"
                THEN index_reply(log_index, connected, f.req, f.addr, accepted)
                ELSE fetch_reply(disk, connected, f.req, f.addr, accepted)
       IN  /\ inbox' = IF r.result = "Ok"
                       THEN [inbox EXCEPT ![f.addr] = Append(@, r.reply)]
                       ELSE inbox
           /\ logDone' = logDone \cup
                 {[req |-> f.req, result |-> r.result, reply |-> r.reply, to |-> f.addr]}
    /\ futures' = futures \ {f}
    /\ UNCHANGED <<brokerVars, logQ, log_index, disk, sessionVars,
                   connected, logReqs>>
    /\ UNCHANGED <<hb, wire, putRes>>
    /\ UNCHANGED <<held, data_logger, stream, log_dirs, socket, unitVars>>

\* ------------------------------------------------------------ SessionService
\* insert_session that keeps the entry a client id already has
insert_session_absent(reg, client_id, addr) ==
    IF reg[client_id] = None THEN [reg EXCEPT ![client_id] = addr] ELSE reg

\* SessionService::insert_session: HashMap::insert
insert_session(reg, client_id, addr) == [reg EXCEPT ![client_id] = addr]

\* remove_session that leaves the map as it is
remove_session_keep(reg, client_id) == reg

\* SessionService::remove_session: HashMap::remove
remove_session(reg, client_id) == [reg EXCEPT ![client_id] = None]

\* SessionService::get_session_addr: the entry, or None for
\* Err(SessionNotFound)
get_session_addr(reg, client_id) == reg[client_id]

\* Handler<InsertSession>: insert_session
HandleInsertSession ==
    /\ sessQ # <<>> /\ Head(sessQ).type = "InsertSession"
    /\ registry' = insert_session(registry, Head(sessQ).id, Head(sessQ).addr)
    /\ sessQ' = Tail(sessQ)
    /\ UNCHANGED <<brokerVars, loggerVars, endpointVars, logReqs>>
    /\ UNCHANGED <<hb, wire, putRes>>
    /\ UNCHANGED <<held, data_logger, stream, log_dirs, socket, unitVars>>

\* Handler<RemoveSession>: remove_session
HandleRemoveSession ==
    /\ sessQ # <<>> /\ Head(sessQ).type = "RemoveSession"
    /\ registry' = remove_session(registry, Head(sessQ).id)
    /\ sessQ' = Tail(sessQ)
    /\ UNCHANGED <<brokerVars, loggerVars, endpointVars, logReqs>>
    /\ UNCHANGED <<hb, wire, putRes>>
    /\ UNCHANGED <<held, data_logger, stream, log_dirs, socket, unitVars>>

\* Handler<GetSessionAddr>: get_session_addr; the answer resumes the future
HandleGetSessionAddr ==
    /\ sessQ # <<>> /\ Head(sessQ).type = "GetSessionAddr"
    /\ futures' = {IF f.req.no = Head(sessQ).no
                   THEN [f EXCEPT !.stage = "ready",
                                   !.addr = get_session_addr(registry, Head(sessQ).id)]
                   ELSE f : f \in futures}
    /\ sessQ' = Tail(sessQ)
    /\ UNCHANGED <<brokerVars, logQ, log_index, disk, logDone,
                   registry, endpointVars, logReqs>>
    /\ UNCHANGED <<hb, wire, putRes>>
    /\ UNCHANGED <<held, data_logger, stream, log_dirs, socket, unitVars>>

\* ----------------------------------------- log frames at a WebSocketSession
\* Entry lists a GetLogEntries frame may carry
MaxEntries == 1
EntryLists == UNION {[1..n -> PubIds] : n \in 0..MaxEntries}

\* The Err branch of try_send in an arm of StreamHandler::handle (the mailbox
\* of the actor is full or closed): ctx.binary(format!("{}", e)) writes the
\* send error to the client as a binary frame, and nothing is sent.
send_failed(w, e) == [w EXCEPT ![e] = BinaryFrame("send failed")]

\* StreamHandler::handle, ClientCommand::GetLogIndex { client_id, log_id }:
\* the DataLogIndex is try_sent to the DataLogger, which takes it or not
FrameGetLogIndex(e, client_id, log_id) ==
    /\ e \in connected
    /\ Room
    /\ logReqs < MaxLogReqs
    /\ hb' = seen(hb, e)
    /\ \E accepted \in BOOLEAN :
          IF accepted
          THEN /\ logReqs' = logReqs + 1
               /\ logQ' = Append(logQ, [type |-> "Index", client_id |-> client_id,
                                        data_log_id |-> log_id, entries |-> <<>>,
                                        no |-> logReqs + 1, from |-> e,
                                        issued |-> nextPub - 1, answers |-> 0])
               /\ wire' = wire
          ELSE /\ wire' = send_failed(wire, e)
               /\ UNCHANGED <<logReqs, logQ>>
    /\ UNCHANGED <<brokerVars, log_index, disk, futures, logDone,
                   sessionVars, endpointVars, putRes>>
    /\ UNCHANGED <<held, data_logger, stream, log_dirs, socket, unitVars>>

\* StreamHandler::handle, ClientCommand::GetLogEntries { client_id, log_id,
\* entries }: the DataLogFetch is try_sent to the DataLogger, which takes it
\* or not
FrameGetLogEntries(e, client_id, log_id, entries) ==
    /\ e \in connected
    /\ Room
    /\ logReqs < MaxLogReqs
    /\ hb' = seen(hb, e)
    /\ \E accepted \in BOOLEAN :
          IF accepted
          THEN /\ logReqs' = logReqs + 1
               /\ logQ' = Append(logQ, [type |-> "Fetch", client_id |-> client_id,
                                        data_log_id |-> log_id, entries |-> entries,
                                        no |-> logReqs + 1, from |-> e,
                                        issued |-> nextPub - 1, answers |-> 0])
               /\ wire' = wire
          ELSE /\ wire' = send_failed(wire, e)
               /\ UNCHANGED <<logReqs, logQ>>
    /\ UNCHANGED <<brokerVars, log_index, disk, futures, logDone,
                   sessionVars, endpointVars, putRes>>
    /\ UNCHANGED <<held, data_logger, stream, log_dirs, socket, unitVars>>

\* ------------------------------------ subscription frames at a WebSocketSession
\* ManageSubscription::Add { client_id, subscription_id } and
\* SubmitCommand::new(&client_id, &subscription_id, &submission), the messages
\* an endpoint try_sends to the pubsub actor.  `frame` and `from` record the
\* command of the frame and the endpoint that received it.
ManageSubscription(e, frame, kind, client_id, subscription_id) ==
    [type |-> "ManageSubscription", kind |-> kind, client_id |-> client_id,
     subscription_id |-> subscription_id, frame |-> frame, from |-> e]
SubmitCommand(e, frame, client_id, subscription_id, submission) ==
    [type |-> "SubmitCommand", client_id |-> client_id,
     subscription_id |-> subscription_id, submission |-> submission,
     frame |-> frame, from |-> e]

IsSubmitCommand(m) == m.type = "SubmitCommand"

\* StreamHandler::handle, ClientCommand::Subscribe { client_id, subscription_id }:
\* ManageSubscription::Add is try_sent to the pubsub actor; when it is taken
\* nothing is written to the client
FrameSubscribe(e, client_id, subscription_id) ==
    /\ e \in connected
    /\ Room
    /\ hb' = seen(hb, e)
    /\ \E accepted \in BOOLEAN :
          IF accepted
          THEN /\ brokerQ' = Append(brokerQ, ManageSubscription(e, "Subscribe", "Add",
                                          client_id, subscription_id))
               /\ wire' = wire
          ELSE /\ wire' = send_failed(wire, e)
               /\ brokerQ' = brokerQ
    /\ UNCHANGED <<store, sessions, nextPub, handled, adds, pubs,
                   loggerVars, sessionVars, endpointVars, putRes, logReqs>>
    /\ UNCHANGED <<held, data_logger, stream, log_dirs, socket, unitVars>>

\* StreamHandler::handle, ClientCommand::Unsubscribe { client_id, subscription_id }:
\* the arm try_sends ManageSubscription::Add
FrameUnsubscribe(e, client_id, subscription_id) ==
    /\ e \in connected
    /\ Room
    /\ hb' = seen(hb, e)
    /\ \E accepted \in BOOLEAN :
          IF accepted
          THEN /\ brokerQ' = Append(brokerQ, ManageSubscription(e, "Unsubscribe", "Add",
                                          client_id, subscription_id))
               /\ wire' = wire
          ELSE /\ wire' = send_failed(wire, e)
               /\ brokerQ' = brokerQ
    /\ UNCHANGED <<store, sessions, nextPub, handled, adds, pubs,
                   loggerVars, sessionVars, endpointVars, putRes, logReqs>>
    /\ UNCHANGED <<held, data_logger, stream, log_dirs, socket, unitVars>>

\* StreamHandler::handle, ClientCommand::SubmitPublication
\* { client_id, subscription_id, submission }: the SubmitCommand is try_sent
\* to the pubsub actor
FrameSubmitPublication(e, client_id, subscription_id, submission) ==
    /\ e \in connected
    /\ Room
    /\ nextPub + Len(SelectSeq(brokerQ, IsSubmitCommand)) <= MaxSubmits
    /\ hb' = seen(hb, e)
    /\ \E accepted \in BOOLEAN :
          IF accepted
          THEN /\ brokerQ' = Append(brokerQ, SubmitCommand(e, "SubmitPublication", client_id,
                                          subscription_id, submission))
               /\ wire' = wire
          ELSE /\ wire' = send_failed(wire, e)
               /\ brokerQ' = brokerQ
    /\ UNCHANGED <<store, sessions, nextPub, handled, adds, pubs,
                   loggerVars, sessionVars, endpointVars, putRes, logReqs>>
    /\ UNCHANGED <<held, data_logger, stream, log_dirs, socket, unitVars>>

\* ------------------------------------------------------------ PubSubService
\* The pubsub actor the endpoints of websocket.rs address.  It keeps the
\* subscription store, is given the DataLogger and the SessionService, and
\* resolves the endpoint of a client id through the SessionService.
IsServiceMessage(type) ==
    /\ brokerQ # <<>>
    /\ Head(brokerQ).type = type

\* A Subscribe Add that sends a response to the endpoint of the client
HandleManageSubscriptionAck ==
    /\ IsServiceMessage("ManageSubscription")
    /\ Head(brokerQ).kind = "Add"
    /\ LET msg == Head(brokerQ)
           found == fetch(store, msg.subscription_id)
           s == IF found # NoSub
                THEN append_subscriber(found, msg.client_id)
                ELSE append_subscriber(
                         Subscription_new(msg.subscription_id, msg.client_id),
                         msg.client_id)
       IN  /\ store' = update(store, s)
           /\ inbox' = send_response(registry, connected, inbox, msg.client_id,
                                     ResponseMsg("Add", s.id))
           /\ handled' = "Ok"
           /\ adds' = [adds EXCEPT ![msg.subscription_id][msg.client_id] =
                         IF @ < 2 THEN @ + 1 ELSE @]
    /\ brokerQ' = Tail(brokerQ)
    /\ UNCHANGED <<sessions, nextPub, pubs, loggerVars, sessionVars,
                   connected, logReqs>>
    /\ UNCHANGED <<hb, wire, putRes>>
    /\ UNCHANGED <<held, data_logger, stream, log_dirs, socket, unitVars>>

\* Subscribe Add (client id, subscription id): the client is appended to the
\* subscribers of the subscription, which is created with the client as its
\* name and only subscriber when the store does not hold it.  Nothing is sent
\* to the endpoint.
HandleManageSubscription ==
    /\ IsServiceMessage("ManageSubscription")
    /\ Head(brokerQ).kind = "Add"
    /\ LET msg == Head(brokerQ)
           found == fetch(store, msg.subscription_id)
           s == IF found # NoSub
                THEN append_subscriber(found, msg.client_id)
                ELSE append_subscriber(
                         Subscription_new(msg.subscription_id, msg.client_id),
                         msg.client_id)
       IN  /\ store' = update(store, s)
           /\ handled' = "Ok"
           /\ adds' = [adds EXCEPT ![msg.subscription_id][msg.client_id] =
                         IF @ < 2 THEN @ + 1 ELSE @]
    /\ brokerQ' = Tail(brokerQ)
    /\ UNCHANGED <<sessions, nextPub, pubs, loggerVars, sessionVars,
                   endpointVars, logReqs>>
    /\ UNCHANGED <<hb, wire, putRes>>
    /\ UNCHANGED <<held, data_logger, stream, log_dirs, socket, unitVars>>

\* A Submit that notifies the subscribers with the id of the publication and
\* without its data
HandleSubmitCommandIdOnly ==
    /\ IsServiceMessage("SubmitCommand")
    /\ LET msg == Head(brokerQ)
           found == fetch(store, msg.subscription_id)
           publication == [id |-> nextPub, data |-> msg.submission]
       IN  IF found = NoSub
           THEN /\ handled' = "Err"
                /\ UNCHANGED <<nextPub, pubs, logQ, inbox>>
           ELSE \E accepted \in BOOLEAN :
                IF accepted
                THEN /\ logQ' = Append(logQ, DataLogPut(found.id, publication))
                     /\ inbox' = distribute(found.subscribers, registry, connected,
                                            inbox, PublicationMsg_empty(publication))
                     /\ nextPub' = nextPub + 1
                     /\ pubs' = [pubs EXCEPT ![nextPub] =
                                   [sub |-> found.id, data |-> msg.submission,
                                    gone |-> Gone(found, registry, connected)]]
                     /\ handled' = "Ok"
                ELSE /\ handled' = "SendError"
                     /\ UNCHANGED <<nextPub, pubs, logQ, inbox>>
    /\ brokerQ' = Tail(brokerQ)
    /\ UNCHANGED <<store, sessions, adds, log_index, disk, futures, logDone,
                   sessionVars, connected, logReqs>>
    /\ UNCHANGED <<hb, wire, putRes>>
    /\ UNCHANGED <<held, data_logger, stream, log_dirs, socket, unitVars>>

\* Submit (client id, subscription id, bytes): the subscription is fetched,
\* and a Submit to one the store does not hold fails.  A publication with a
\* fresh id is made and the Log Store is instructed to persist it: when the
\* Put cannot be sent (the mailbox of the DataLogger does not take it) the
\* Submit fails and nothing is delivered.  Once the Put is enqueued the
\* publication is sent to the endpoint of every subscriber that the
\* SessionService has an address for; a subscriber without one is skipped.
\* The notification is the ServerMessage<Publication>, which carries the data:
\* that is the server message the endpoints have a Handler for
\* (websocket.rs:119-130) and the frame from which the integration test reads
\* the submitted bytes (websocket.rs:366-372).
HandleSubmitCommand ==
    /\ IsServiceMessage("SubmitCommand")
    /\ LET msg == Head(brokerQ)
           found == fetch(store, msg.subscription_id)
           publication == [id |-> nextPub, data |-> msg.submission]
       IN  IF found = NoSub
           THEN /\ handled' = "Err"
                /\ UNCHANGED <<nextPub, pubs, logQ, inbox>>
           ELSE \E accepted \in BOOLEAN :
                IF accepted
                THEN /\ logQ' = Append(logQ, DataLogPut(found.id, publication))
                     /\ inbox' = distribute(found.subscribers, registry, connected,
                                            inbox, PublicationMsg(publication))
                     /\ nextPub' = nextPub + 1
                     /\ pubs' = [pubs EXCEPT ![nextPub] =
                                   [sub |-> found.id, data |-> msg.submission,
                                    gone |-> Gone(found, registry, connected)]]
                     /\ handled' = "Ok"
                ELSE /\ handled' = "SendError"
                     /\ UNCHANGED <<nextPub, pubs, logQ, inbox>>
    /\ brokerQ' = Tail(brokerQ)
    /\ UNCHANGED <<store, sessions, adds, log_index, disk, futures, logDone,
                   sessionVars, connected, logReqs>>
    /\ UNCHANGED <<hb, wire, putRes>>
    /\ UNCHANGED <<held, data_logger, stream, log_dirs, socket, unitVars>>

\* The client of endpoint c reads the frame of a ServerMessage<Publication>
\* from its socket and keeps the id of the publication.
ClientReadPublication(c) ==
    /\ socket[c] # <<>> /\ Head(socket[c]).payload.type = "Publication"
    /\ socket' = [socket EXCEPT ![c] = Tail(@)]
    /\ held' = [held EXCEPT ![c] = @ \cup {Head(socket[c]).payload.id}]
    /\ UNCHANGED <<brokerVars, loggerVars, sessionVars, endpointVars, logReqs>>
    /\ UNCHANGED <<hb, wire, putRes>>
    /\ UNCHANGED <<data_logger, stream, log_dirs, unitVars>>

\* The client of endpoint c reads a frame that is no publication.
ClientReadOther(c) ==
    /\ socket[c] # <<>> /\ Head(socket[c]).payload.type # "Publication"
    /\ ClientRead(c)

\* StreamHandler::handle, ClientCommand::GetLogEntries from a client that asks
\* for a publication it has read before, under its own client id and for the
\* log it names: the endpoint try_sends the DataLogFetch to the DataLogger,
\* which takes it or not.
AnswerIssue(c, log_id, p) ==
    /\ c \in connected
    /\ p \in held[c]
    /\ logReqs < MaxLogReqs
    /\ held' = [held EXCEPT ![c] = @ \ {p}]
    /\ hb' = seen(hb, c)
    /\ \E accepted \in BOOLEAN :
          IF accepted
          THEN /\ logReqs' = logReqs + 1
               /\ logQ' = Append(logQ, [type |-> "Fetch", client_id |-> c,
                                        data_log_id |-> log_id, entries |-> <<p>>,
                                        no |-> logReqs + 1, from |-> c,
                                        issued |-> nextPub - 1, answers |-> p])
               /\ wire' = wire
          ELSE /\ wire' = send_failed(wire, c)
               /\ UNCHANGED <<logReqs, logQ>>
    /\ UNCHANGED <<brokerVars, log_index, disk, futures, logDone,
                   sessionVars, endpointVars, putRes>>
    /\ UNCHANGED <<data_logger, stream, log_dirs, socket, unitVars>>

\* ---------------------------------------------------------------------- Next
\* The PubSubServer with the endpoints it addresses and the DataLogger it
\* logs to, when it has one; the mailbox of the DataLogger may refuse the Put
\* of a Submit.  A session closes when the bound on what is pending leaves
\* room; the close that overtakes pending commands is in SpecGone.
Next ==
    \/ \E c \in Clients : Connect(c)
    \/ \E c \in Clients : Room /\ Disconnect(c)
    \/ \E c \in Clients : EndpointHandle(c)
    \/ \E c \in Clients : ClientRead(c)
    \/ \E c \in Clients, s \in SubIds : SendAdd(c, s)
    \/ \E c \in Clients, s \in SubIds : SendRemove(c, s)
    \/ \E c \in Clients : SendList(c)
    \/ \E c \in Clients, s \in SubIds : SendGet(c, s)
    \/ \E c \in Clients, s \in SubIds, d \in Payloads : SendSubmit(c, s, d)
    \/ HandleClientJoin
    \/ HandleClientDisconnect
    \/ HandleAdd
    \/ HandleRemove
    \/ HandleList
    \/ HandleGet
    \/ HandleSubmit
    \/ HandleSubmitPanic
    \/ HandlePut
    \/ HandleInsertSession
    \/ HandleRemoveSession

Spec == Init /\ [][Next]_vars

\* ------------------------------------------- life of a WebSocketSession

\* Messages in the mailbox of the SessionService beyond which no further
\* connection is opened
MaxQueued == 2

\* websocket_handler / Actor::started: a connection is opened, at any time,
\* and its endpoint starts, or stops at once when the SessionService does not
\* take its InsertSession.  (The specifications of the pubsub actor and of
\* the DataLogger open a connection when the bound on what is pending leaves
\* room.)
Open(a) ==
    /\ Len(sessQ) < MaxQueued
    /\ \E accepted \in BOOLEAN : started(a, accepted)
    /\ UNCHANGED <<brokerVars, loggerVars, registry, putRes, logReqs>>
    /\ UNCHANGED <<held, data_logger, log_dirs, unitVars>>

\* The reasons a Close frame may carry: none, or a close code
CloseReasons == {None, "Away"}
\* The payloads a Ping frame may carry
PingPayloads == {"", "k"}

\* The frames a client sends that carry no ClientCommand: a Text frame, a
\* Binary frame that serde_cbor::from_slice cannot decode, Ping, Pong, Close,
\* and a frame of another kind (ws::Message::Continuation).  (A Binary frame
\* that decodes as a ClientCommand is handled in the step in which it
\* arrives: FrameSubscribe, FrameUnsubscribe, FrameSubmitPublication,
\* FrameGetLogIndex, FrameGetLogEntries.)
ClientFrames ==
    {TextFrame("hello"), BinaryFrame("junk"), PongFrame(""),
     [type |-> "Continuation", payload |-> ""]}
    \cup {[type |-> "Ping", payload |-> p] : p \in PingPayloads}
    \cup {CloseFrame(reason) : reason \in CloseReasons}

\* The client of endpoint a sends a frame on its open connection.
ClientSend(a, frame) ==
    /\ a \in connected
    /\ Room
    /\ stream' = [stream EXCEPT ![a] = Append(@, frame)]
    /\ UNCHANGED <<brokerVars, loggerVars, sessionVars, endpointVars, hb, wire,
                   putRes, logReqs>>
    /\ UNCHANGED <<held, data_logger, log_dirs, socket, unitVars>>

\* StreamHandler::handle is given the next frame of the connection of
\* endpoint a, which is of the given type
Receives(a, type) ==
    /\ a \in connected
    /\ stream[a] # <<>>
    /\ Head(stream[a]).type = type

\* StreamHandler::handle, Text frame: self.hb = Instant::now() and the fixed
\* text is written back
FrameText(a) ==
    /\ Receives(a, "Text")
    /\ stream' = [stream EXCEPT ![a] = Tail(@)]
    /\ hb' = seen(hb, a)
    /\ wire' = [wire EXCEPT ![a] = TextFrame("Text messages not implemented")]
    /\ UNCHANGED <<brokerVars, loggerVars, sessionVars, endpointVars, putRes,
                   logReqs>>
    /\ UNCHANGED <<held, data_logger, log_dirs, socket, unitVars>>

\* An undecodable Binary frame that makes the endpoint stop
FrameUndecodableStop(a) ==
    /\ Receives(a, "Binary")
    /\ stopping(a)
    /\ wire' = [wire EXCEPT ![a] = NoFrame]
    /\ UNCHANGED <<brokerVars, loggerVars, registry, hb, putRes, logReqs>>
    /\ UNCHANGED <<held, data_logger, log_dirs, unitVars>>

\* StreamHandler::handle, Binary frame that serde_cbor::from_slice cannot
\* decode as a ClientCommand: self.hb = Instant::now() and the decode error
\* is written back as a binary frame
FrameUndecodable(a) ==
    /\ Receives(a, "Binary")
    /\ stream' = [stream EXCEPT ![a] = Tail(@)]
    /\ hb' = seen(hb, a)
    /\ wire' = [wire EXCEPT ![a] = BinaryFrame("decode error")]
    /\ UNCHANGED <<brokerVars, loggerVars, sessionVars, endpointVars, putRes,
                   logReqs>>
    /\ UNCHANGED <<held, data_logger, log_dirs, socket, unitVars>>

\* StreamHandler::handle, Ping frame: self.hb = Instant::now(), ctx.pong(&msg)
\* writes a Pong frame with the payload of the Ping
FramePing(a) ==
    /\ Receives(a, "Ping")
    /\ stream' = [stream EXCEPT ![a] = Tail(@)]
    /\ hb' = seen(hb, a)
    /\ wire' = [wire EXCEPT ![a] = PongFrame(Head(stream[a]).payload)]
    /\ UNCHANGED <<brokerVars, loggerVars, sessionVars, endpointVars, putRes,
                   logReqs>>
    /\ UNCHANGED <<held, data_logger, log_dirs, socket, unitVars>>

\* StreamHandler::handle, Pong frame: self.hb = Instant::now()
FramePong(a) ==
    /\ Receives(a, "Pong")
    /\ stream' = [stream EXCEPT ![a] = Tail(@)]
    /\ hb' = seen(hb, a)
    /\ UNCHANGED <<brokerVars, loggerVars, sessionVars, endpointVars, wire,
                   putRes, logReqs>>
    /\ UNCHANGED <<held, data_logger, log_dirs, socket, unitVars>>

\* StreamHandler::handle, Close frame: ctx.close(reason) writes a Close frame
\* with the reason received, then ctx.stop(); hb is not set
FrameClose(a) ==
    /\ Receives(a, "Close")
    /\ stopping(a)
    /\ wire' = [wire EXCEPT ![a] = CloseFrame(Head(stream[a]).payload)]
    /\ UNCHANGED <<brokerVars, loggerVars, registry, hb, putRes, logReqs>>
    /\ UNCHANGED <<held, data_logger, log_dirs, unitVars>>

\* StreamHandler::handle, the catch-all arm (a protocol error or a frame of
\* another kind): ctx.stop(), nothing is written
FrameUnhandled(a) ==
    /\ a \in connected
    /\ stream[a] # <<>>
    /\ Head(stream[a]).type \notin {"Text", "Binary", "Ping", "Pong", "Close"}
    /\ stopping(a)
    /\ wire' = [wire EXCEPT ![a] = NoFrame]
    /\ UNCHANGED <<brokerVars, loggerVars, registry, hb, putRes, logReqs>>
    /\ UNCHANGED <<held, data_logger, log_dirs, unitVars>>

\* A heartbeat that lets the timeout pass by one more interval before it stops
beat_late(a) ==
    /\ a \in connected
    /\ hb' = [hb EXCEPT ![a] = @ + HEARTBEAT_INTERVAL]
    /\ IF hb'[a] > CLIENT_TIMEOUT + HEARTBEAT_INTERVAL
       THEN stopping(a) /\ wire' = [wire EXCEPT ![a] = NoFrame]
       ELSE /\ wire' = [wire EXCEPT ![a] = PingFrame]
            /\ UNCHANGED <<connected, inbox, sessQ, socket, stream>>
    /\ UNCHANGED <<brokerVars, loggerVars, registry, putRes, logReqs>>
    /\ UNCHANGED <<held, data_logger, log_dirs, unitVars>>

\* A heartbeat that stops the endpoint when CLIENT_TIMEOUT has passed, also
\* when no more than that
beat_early(a) ==
    /\ a \in connected
    /\ hb' = [hb EXCEPT ![a] = @ + HEARTBEAT_INTERVAL]
    /\ IF hb'[a] >= CLIENT_TIMEOUT
       THEN stopping(a) /\ wire' = [wire EXCEPT ![a] = NoFrame]
       ELSE /\ wire' = [wire EXCEPT ![a] = PingFrame]
            /\ UNCHANGED <<connected, inbox, sessQ, socket, stream>>
    /\ UNCHANGED <<brokerVars, loggerVars, registry, putRes, logReqs>>
    /\ UNCHANGED <<held, data_logger, log_dirs, unitVars>>

\* WebSocketSession::beat, the closure run every HEARTBEAT_INTERVAL: the
\* endpoint stops when Instant::now().duration_since(act.hb) is more than
\* CLIENT_TIMEOUT and pings its client otherwise.  An endpoint whose client
\* sends nothing stops at its second tick, a little more than two intervals
\* after it was made.
beat(a) ==
    /\ a \in connected
    /\ hb' = [hb EXCEPT ![a] = @ + HEARTBEAT_INTERVAL]
    /\ IF hb'[a] > CLIENT_TIMEOUT
       THEN stopping(a) /\ wire' = [wire EXCEPT ![a] = NoFrame]
       ELSE /\ wire' = [wire EXCEPT ![a] = PingFrame]
            /\ UNCHANGED <<connected, inbox, sessQ, socket, stream>>
    /\ UNCHANGED <<brokerVars, loggerVars, registry, putRes, logReqs>>
    /\ UNCHANGED <<held, data_logger, log_dirs, unitVars>>

\* The endpoints and the SessionService: connections are opened while
\* others are being registered or removed.  The clients of the first
\* connection of each client id send frames; the client of the second
\* connection of c1 sends none.
NextSess ==
    \/ \E a \in Endpoints : Open(a)
    \/ \E a \in Clients, frame \in ClientFrames : ClientSend(a, frame)
    \/ \E a \in Endpoints : FrameText(a)
    \/ \E a \in Endpoints : FrameUndecodable(a)
    \/ \E a \in Endpoints : FramePing(a)
    \/ \E a \in Endpoints : FramePong(a)
    \/ \E a \in Endpoints : FrameClose(a)
    \/ \E a \in Endpoints : FrameUnhandled(a)
    \/ \E a \in Endpoints : beat(a)
    \/ HandleInsertSession
    \/ HandleRemoveSession

SpecSess == InitLogging /\ [][NextSess]_vars

\* Publications a DataLogPut may carry: DataLogEntry::Publications(Vec) of
\* up to MaxPut publications
MaxPut == 2
PutLists ==
    UNION {[1..n -> [id : PubIds, data : Payloads]] : n \in 0..MaxPut}

\* DataLogPut::new(log_id, DataLogEntry::Publications(entries)) sent to the
\* DataLogger
SendPut(log_id, entries) ==
    /\ Room
    /\ logQ' = Append(logQ, [type |-> "Put", data_log_id |-> log_id,
                             entries |-> entries])
    /\ UNCHANGED <<brokerVars, log_index, disk, futures, logDone,
                   sessionVars, endpointVars, hb, wire, putRes, logReqs>>
    /\ UNCHANGED <<held, data_logger, stream, log_dirs, socket, unitVars>>

\* DataLogPut::new(log_id, DataLogEntry::Subscribers(subscribers)) sent to the
\* DataLogger
SendPutSubscribers(log_id, subscribers) ==
    /\ Room
    /\ logQ' = Append(logQ, [type |-> "PutSubscribers", data_log_id |-> log_id,
                             subscribers |-> subscribers])
    /\ UNCHANGED <<brokerVars, log_index, disk, futures, logDone,
                   sessionVars, endpointVars, hb, wire, putRes, logReqs>>
    /\ UNCHANGED <<held, data_logger, stream, log_dirs, socket, unitVars>>

\* The DataLogger handling Puts of publications and of subscribers.
NextPut ==
    \/ \E s \in SubIds, l \in PutLists : SendPut(s, l)
    \/ \E s \in SubIds, l \in {<<>>, <<"c1">>, <<"c2", "c1">>} :
          SendPutSubscribers(s, l)
    \/ HandlePut
    \/ HandlePutSubscribers

SpecPut == InitLogging /\ [][NextPut]_vars

\* The server is started again on a data directory that holds publications:
\* every actor is constructed anew, DataLogger::new with
\* log_index: HashMap::new(); the files stay, the mailboxes, futures and
\* connections of the previous run are gone.  Publication ids already drawn
\* are not drawn again.
Restart ==
    /\ disk # {}
    /\ log_index # [s \in {} |-> {}]
    /\ store' = [s \in SubIds |-> NoSub]
    /\ sessions' = [c \in Clients |-> None]
    /\ brokerQ' = <<>>
    /\ logQ' = <<>>
    /\ log_index' = [s \in {} |-> {}]
    /\ futures' = {}
    /\ sessQ' = <<>>
    /\ registry' = [c \in Clients |-> None]
    /\ connected' = {}
    /\ inbox' = [a \in Endpoints |-> <<>>]
    /\ hb' = [a \in Endpoints |-> 0]
    /\ wire' = [a \in Endpoints |-> NoFrame]
    /\ socket' = [a \in Endpoints |-> <<>>]
    /\ stream' = [a \in Endpoints |-> <<>>]
    /\ putRes' = None
    /\ handled' = None
    /\ adds' = [s \in SubIds |-> [c \in Clients |-> 0]]
    /\ UNCHANGED <<disk, log_dirs, nextPub, pubs, logReqs, logDone>>
    /\ UNCHANGED <<held, data_logger, unitVars>>

\* The DataLogger across restarts, serving GetLogIndex frames, with one
\* client that subscribes and submits.
NextRestart ==
    \/ \E c \in Clients : Room /\ Open(c)
    \/ \E c \in Clients : EndpointHandle(c)
    \/ \E c \in Clients : ClientRead(c)
    \/ \E s \in SubIds : FrameSubscribe("c1", "c1", s)
    \/ \E s \in SubIds, d \in Payloads : FrameSubmitPublication("c1", "c1", s, d)
    \/ HandleManageSubscription
    \/ HandleSubmitCommand
    \/ HandlePut
    \/ HandlePull
    \/ PollPull
    \/ \E f \in futures : CompletePull(f)
    \/ HandleInsertSession
    \/ HandleRemoveSession
    \/ HandleGetSessionAddr
    \/ \E e \in Clients, c \in Clients, s \in SubIds : FrameGetLogIndex(e, c, s)
    \/ Restart

SpecRestart == InitLogging /\ [][NextRestart]_vars

\* Entry lists of up to MaxFetch ids
MaxFetch == 2
FetchLists == UNION {[1..n -> PubIds] : n \in 0..MaxFetch}

\* The DataLogger serving GetLogEntries frames, with one client that
\* subscribes and submits.
NextFetch ==
    \/ \E c \in Clients : Room /\ Open(c)
    \/ \E c \in Clients : EndpointHandle(c)
    \/ \E c \in Clients : ClientRead(c)
    \/ \E s \in SubIds : FrameSubscribe("c1", "c1", s)
    \/ \E s \in SubIds, d \in Payloads : FrameSubmitPublication("c1", "c1", s, d)
    \/ HandleManageSubscription
    \/ HandleSubmitCommand
    \/ HandlePut
    \/ HandlePull
    \/ PollPull
    \/ \E f \in futures : CompletePull(f)
    \/ HandleInsertSession
    \/ HandleRemoveSession
    \/ HandleGetSessionAddr
    \/ \E e \in Clients, c \in Clients, s \in SubIds, l \in FetchLists :
          FrameGetLogEntries(e, c, s, l)

SpecFetch == InitLogging /\ [][NextFetch]_vars

\* The pubsub actor fed by the frames of the endpoints.
NextFrames ==
    \/ \E c \in Clients : Room /\ Open(c)
    \/ \E c \in Clients : ClientSend(c, CloseFrame(None))
    \/ \E c \in Clients : FrameClose(c)
    \/ \E c \in Clients : EndpointHandle(c)
    \/ \E c \in Clients : ClientRead(c)
    \/ \E e \in Clients, c \in Clients, s \in SubIds : FrameSubscribe(e, c, s)
    \/ \E e \in Clients, c \in Clients, s \in SubIds : FrameUnsubscribe(e, c, s)
    \/ \E e \in Clients, c \in Clients, s \in SubIds, d \in Payloads :
          FrameSubmitPublication(e, c, s, d)
    \/ HandleManageSubscription
    \/ HandleSubmitCommand
    \/ HandlePut
    \/ HandleInsertSession
    \/ HandleRemoveSession

SpecFrames == InitLogging /\ [][NextFrames]_vars

\* The PubSubServer that was given a DataLogger, whose mailbox may refuse a
\* Put, without Remove and List.
NextSend ==
    \/ \E c \in Clients : Connect(c)
    \/ \E c \in Clients : Room /\ Disconnect(c)
    \/ \E c \in Clients : EndpointHandle(c)
    \/ \E c \in Clients : ClientRead(c)
    \/ \E c \in Clients, s \in SubIds : SendAdd(c, s)
    \/ \E c \in Clients, s \in SubIds : SendGet(c, s)
    \/ \E c \in Clients, s \in SubIds, d \in Payloads : SendSubmit(c, s, d)
    \/ HandleClientJoin
    \/ HandleClientDisconnect
    \/ HandleAdd
    \/ HandleGet
    \/ HandleSubmit
    \/ HandleSubmitPanic
    \/ HandlePut
    \/ HandleInsertSession
    \/ HandleRemoveSession

SpecSend == InitLogging /\ [][NextSend]_vars

\* The payload submitted where the log is read back: the one with the longer
\* encoding, of which a failing to_writer can leave every kind of part
LogPayloads == {"b2"}

\* The PubSubServer whose sessions close at any time, also while commands
\* are waiting in its mailbox, so that a Submit can be distributed after the
\* endpoint of a subscriber has stopped and before its ClientDisconnect is
\* handled.  Add and Submit only, with the one payload of LogPayloads.
NextGone ==
    \/ \E c \in Clients : Connect(c)
    \/ \E c \in Clients : Disconnect(c)
    \/ \E c \in Clients : EndpointHandle(c)
    \/ \E c \in Clients, s \in SubIds : SendAdd(c, s)
    \/ \E c \in Clients, s \in SubIds, d \in LogPayloads : SendSubmit(c, s, d)
    \/ HandleClientJoin
    \/ HandleClientDisconnect
    \/ HandleAdd
    \/ HandleSubmit
    \/ HandleSubmitPanic
    \/ HandlePut
    \/ HandleInsertSession
    \/ HandleRemoveSession

SpecGone == Init /\ [][NextGone]_vars


\* The endpoints with the pubsub actor, the DataLogger with its futures and
\* the lookups of the SessionService; one client subscribes and submits, and
\* every endpoint is given GetLogIndex and GetLogEntries frames under any
\* client id.
NextLog ==
    \/ \E c \in Clients : Room /\ Open(c)
    \/ \E c \in Clients : EndpointHandle(c)
    \/ \E c \in Clients : ClientRead(c)
    \/ \E s \in SubIds : FrameSubscribe("c1", "c1", s)
    \/ \E s \in SubIds, d \in LogPayloads :
          FrameSubmitPublication("c1", "c1", s, d)
    \/ HandleManageSubscription
    \/ HandleSubmitCommand
    \/ HandlePut
    \/ HandlePull
    \/ PollPull
    \/ \E f \in futures : CompletePull(f)
    \/ HandleInsertSession
    \/ HandleRemoveSession
    \/ HandleGetSessionAddr
    \/ \E e \in Clients, c \in Clients, s \in SubIds : FrameGetLogIndex(e, c, s)
    \/ \E e \in Clients, c \in Clients, s \in SubIds, l \in EntryLists :
          FrameGetLogEntries(e, c, s, l)

SpecLog == InitLogging /\ [][NextLog]_vars

\* The same actors with clients that subscribe and submit under their own
\* ids, keep the id of every publication they read and may ask the log for
\* it at any later time.
NextIssue ==
    \/ \E c \in Clients : Room /\ Open(c)
    \/ \E c \in Clients : EndpointHandle(c)
    \/ \E c \in Clients : ClientReadOther(c)
    \/ \E c \in Clients, s \in SubIds : FrameSubscribe(c, c, s)
    \/ \E c \in Clients, s \in SubIds, d \in LogPayloads :
          FrameSubmitPublication(c, c, s, d)
    \/ HandleManageSubscription
    \/ HandleSubmitCommand
    \/ HandlePut
    \/ HandlePull
    \/ PollPull
    \/ \E f \in futures : CompletePull(f)
    \/ HandleInsertSession
    \/ HandleRemoveSession
    \/ HandleGetSessionAddr
    \/ \E c \in Clients : ClientReadPublication(c)
    \/ \E c \in Clients, s \in SubIds, p \in PubIds : AnswerIssue(c, s, p)

SpecIssue == InitLogging /\ [][NextIssue]_vars

\* ------------------------------------------------- the DataLogger being made
\* The paths a DataLogger is made on, and what may be found there
DataPaths == {"/data", "/frank/nord", "/srv/infotainer"}
PathStates ==
    {PathState(p, "missing", FALSE, FALSE, FALSE) : p \in DataPaths}
    \cup {PathState(p, k, r, w, x) :
            p \in DataPaths, k \in {"dir", "file"},
            r \in BOOLEAN, w \in BOOLEAN, x \in BOOLEAN}

\* main is about to make the DataLogger on a path in any state
InitLogger ==
    /\ store = [s \in SubIds |-> NoSub]
    /\ Quiet
    /\ client_sessions = [c \in {} |-> <<>>]
    /\ data_dir \in PathStates
    /\ data_logger = None
    /\ logger = NoLogger
    /\ codec = NoCodec
    /\ call = NoCall

\* DataLogger::new(data_dir_path, sessions)
NewLogger ==
    /\ logger = NoLogger
    /\ logger' = DataLogger_new(data_dir)
    /\ UNCHANGED <<brokerVars, loggerVars, sessionVars, endpointVars, hb, wire,
                   putRes, logReqs, client_sessions, data_dir, codec, call,
                   data_logger, stream, log_dirs, socket, held>>

NextLogger == NewLogger

SpecLogger == InitLogger /\ [][NextLogger]_vars

\* ------------------------------------- Subscriptions and Sessions on their own
\* The subscription ids and the records the calls on a Subscriptions store
\* are made with
StoreIds == {"s1", "s2"}
StoreSubscriptions ==
    {[id |-> id, name |-> "c1", subscribers |-> subs, log |-> {}] :
        id \in StoreIds, subs \in {<<>>, <<"c1">>, <<"c2", "c1">>}}

\* Session { client, subscriptions }, and the Vecs a session is updated with
Session(client, subscriptions) ==
    [client |-> client, subscriptions |-> subscriptions]
SessionSubscriptions == {<<>>, <<"s1">>, <<"s2", "s1">>}

\* HashMap::insert on Sessions.store
store_insert(st, id, subscriptions) ==
    [c \in DOMAIN st \cup {id} |-> IF c = id THEN subscriptions ELSE st[c]]

\* Sessions::get_or_insert: the session of the entry; without an entry an
\* empty Vec is inserted first.  store is the map the call leaves behind.
RECURSIVE Sessions_get_or_insert(_, _)
Sessions_get_or_insert(st, cli) ==
    IF cli \in DOMAIN st
    THEN [store |-> st, session |-> Session(cli, st[cli])]
    ELSE Sessions_get_or_insert(store_insert(st, cli, <<>>), cli)

\* An update that leaves the entry a client already has
Sessions_update_absent(st, session) ==
    IF session.client \in DOMAIN st THEN st
    ELSE store_insert(st, session.client, session.subscriptions)

\* Sessions::update
Sessions_update(st, session) ==
    store_insert(st, session.client, session.subscriptions)

\* Sessions::remove: HashMap::remove_entry
Sessions_remove(st, cli) == [c \in DOMAIN st \ {cli} |-> st[c]]

\* Subscriptions::new() and Sessions::new(), no call made
InitStores ==
    /\ store = [s \in StoreIds |-> NoSub]
    /\ Quiet
    /\ data_logger = None
    /\ client_sessions = [c \in {} |-> <<>>]
    /\ data_dir = PathState("/data", "dir", TRUE, TRUE, TRUE)
    /\ logger = DataLogger_new(data_dir)
    /\ codec = NoCodec
    /\ call = NoCall

StoresRest == <<sessions, brokerQ, nextPub, handled, adds, pubs, loggerVars,
                sessionVars, endpointVars, hb, wire, putRes, logReqs,
                data_dir, logger, codec, data_logger, stream, log_dirs, socket, held>>

\* subscriptions.update(&sub)
CallUpdate(sub) ==
    /\ store' = update(store, sub)
    /\ call' = [op |-> "Subscriptions::update", arg |-> sub]
    /\ UNCHANGED <<client_sessions, StoresRest>>

\* subscriptions.remove(&id)
CallRemove(id) ==
    /\ store' = Subscriptions_remove(store, id)
    /\ call' = [op |-> "Subscriptions::remove", arg |-> id]
    /\ UNCHANGED <<client_sessions, StoresRest>>

\* sessions.get_or_insert(&cli)
CallGetOrInsert(cli) ==
    /\ client_sessions' = Sessions_get_or_insert(client_sessions, cli).store
    /\ call' = [op |-> "Sessions::get_or_insert", arg |-> cli,
                ret |-> Sessions_get_or_insert(client_sessions, cli).session]
    /\ UNCHANGED <<store, StoresRest>>

\* sessions.update(&session)
CallSessionUpdate(session) ==
    /\ client_sessions' = Sessions_update(client_sessions, session)
    /\ call' = [op |-> "Sessions::update", arg |-> session]
    /\ UNCHANGED <<store, StoresRest>>

\* sessions.remove(&cli)
CallSessionRemove(cli) ==
    /\ client_sessions' = Sessions_remove(client_sessions, cli)
    /\ call' = [op |-> "Sessions::remove", arg |-> cli]
    /\ UNCHANGED <<store, StoresRest>>

\* The two stores under any sequence of calls
NextStores ==
    \/ \E sub \in StoreSubscriptions : CallUpdate(sub)
    \/ \E id \in StoreIds : CallRemove(id)
    \/ \E c \in Clients : CallGetOrInsert(c)
    \/ \E c \in Clients, subs \in SessionSubscriptions :
          CallSessionUpdate(Session(c, subs))
    \/ \E c \in Clients : CallSessionRemove(c)

SpecStores == InitStores /\ [][NextStores]_vars

\* ----------------------------------------------------------- the CBOR codec
\* CBOR data items as serde_cbor writes them: a Uuid is a byte string, a
\* Vec<u8> an array of integers (kept whole), a struct a map from its field
\* names, an enum variant a map with the variant name as its one key, a Vec
\* or HashSet an array, and the newtype ServerMessage<T>(Box<T>) is its T.
cbor_bytes(x) == [major |-> "bytes", value |-> x]
cbor_text(s) == [major |-> "text", value |-> s]
cbor_u8s(data) == [major |-> "array of u8", value |-> data]
cbor_array(items) == [major |-> "array", items |-> items]
cbor_map(entries) == [major |-> "map", items |-> entries]
cbor_variant(name, fields) == cbor_map(<<<<cbor_text(name), cbor_map(fields)>>>>)
cbor_field(name, item) == <<cbor_text(name), item>>

\* The ClientCommand values of a run
ClientCommands ==
    {[type |-> "GetLogIndex", client_id |-> c, log_id |-> s] :
        c \in Clients, s \in SubIds}
    \cup {[type |-> "GetLogEntries", client_id |-> c, log_id |-> s, entries |-> l] :
            c \in Clients, s \in SubIds, l \in EntryLists}
    \cup {[type |-> t, client_id |-> c, subscription_id |-> s] :
            t \in {"Subscribe", "Unsubscribe"}, c \in Clients, s \in SubIds}
    \cup {[type |-> "SubmitPublication", client_id |-> c, subscription_id |-> s,
           submission |-> d] : c \in Clients, s \in SubIds, d \in Payloads}

\* The ServerMessage values of a run: a publication, the entries of a log,
\* the index of a log
Publications == {PublicationMsg([id |-> p, data |-> d]) : p \in PubIds, d \in Payloads}
LogEntries ==
    {[type |-> "LogEntry", entries |-> l] :
        l \in UNION {[1..n -> {[id |-> p, data |-> d] : p \in PubIds, d \in Payloads}] :
                        n \in 0..MaxEntries}}
LogIndexes == {[type |-> "LogIndex", ids |-> S] : S \in SUBSET PubIds}

\* The sequences a HashSet may be iterated in: std documents the order as
\* arbitrary, and with RandomState it differs from one set to the next
Orderings(S) == {f \in [1..Cardinality(S) -> S] : Range(f) = S}

\* Serialize for Publication
publication_item(p) ==
    cbor_map(<<cbor_field("id", cbor_bytes(p.id)), cbor_field("data", cbor_u8s(p.data))>>)

\* serde_cbor::to_vec(&value): the frames it may return
to_vec(v) ==
    CASE v.type = "GetLogIndex" ->
           {cbor_variant("GetLogIndex",
               <<cbor_field("client_id", cbor_bytes(v.client_id)),
                 cbor_field("log_id", cbor_bytes(v.log_id))>>)}
      [] v.type = "GetLogEntries" ->
           {cbor_variant("GetLogEntries",
               <<cbor_field("client_id", cbor_bytes(v.client_id)),
                 cbor_field("log_id", cbor_bytes(v.log_id)),
                 cbor_field("entries",
                    cbor_array([i \in DOMAIN v.entries |-> cbor_bytes(v.entries[i])]))>>)}
      [] v.type \in {"Subscribe", "Unsubscribe"} ->
           {cbor_variant(v.type,
               <<cbor_field("client_id", cbor_bytes(v.client_id)),
                 cbor_field("subscription_id", cbor_bytes(v.subscription_id))>>)}
      [] v.type = "SubmitPublication" ->
           {cbor_variant("SubmitPublication",
               <<cbor_field("client_id", cbor_bytes(v.client_id)),
                 cbor_field("subscription_id", cbor_bytes(v.subscription_id)),
                 cbor_field("submission", cbor_u8s(v.submission))>>)}
      [] v.type = "Publication" -> {publication_item(v)}
      [] v.type = "LogEntry" ->
           {cbor_map(<<<<cbor_text("Publications"),
                         cbor_array([i \in DOMAIN v.entries |->
                                        publication_item(v.entries[i])])>>>>)}
      [] v.type = "LogIndex" ->
           {cbor_array([i \in DOMAIN o |-> cbor_bytes(o[i])]) : o \in Orderings(v.ids)}

\* The value a map item has for the field `name`
field_of(item, name) ==
    LET i == CHOOSE k \in DOMAIN item.items : item.items[k][1] = cbor_text(name)
    IN  item.items[i][2]

\* Deserialize for Publication
publication_of(item) ==
    [id |-> field_of(item, "id").value, data |-> field_of(item, "data").value]

\* serde_cbor::from_slice::<T>(&frame) of a frame to_vec has written, T being
\* ClientCommand or ServerMessage<Publication | DataLogEntry | HashSet<Uuid>>
from_slice(T, frame) ==
    CASE T = "ClientCommand" ->
          (LET variant == frame.items[1][1].value
               fields == frame.items[1][2]
           IN  CASE variant = "GetLogIndex" ->
                      [type |-> variant,
                       client_id |-> field_of(fields, "client_id").value,
                       log_id |-> field_of(fields, "log_id").value]
                 [] variant = "GetLogEntries" ->
                      [type |-> variant,
                       client_id |-> field_of(fields, "client_id").value,
                       log_id |-> field_of(fields, "log_id").value,
                       entries |-> [i \in DOMAIN field_of(fields, "entries").items |->
                                       field_of(fields, "entries").items[i].value]]
                 [] variant \in {"Subscribe", "Unsubscribe"} ->
                      [type |-> variant,
                       client_id |-> field_of(fields, "client_id").value,
                       subscription_id |-> field_of(fields, "subscription_id").value]
                 [] variant = "SubmitPublication" ->
                      [type |-> variant,
                       client_id |-> field_of(fields, "client_id").value,
                       subscription_id |-> field_of(fields, "subscription_id").value,
                       submission |-> field_of(fields, "submission").value])
      [] T = "Publication" -> PublicationMsg(publication_of(frame))
      [] T = "DataLogEntry" ->
           [type |-> "LogEntry",
            entries |-> [i \in DOMAIN frame.items[1][2].items |->
                            publication_of(frame.items[1][2].items[i])]]
      [] T = "HashSet" ->
           [type |-> "LogIndex",
            ids |-> {frame.items[i].value : i \in DOMAIN frame.items}]

\* A value about to be written
Value(T, v) ==
    [stage |-> "value", T |-> T, value |-> v, frame |-> NoFrame,
     decoded |-> NoFrame, reframe |-> NoFrame]

InitCodec ==
    /\ store = [s \in SubIds |-> NoSub]
    /\ Quiet
    /\ data_logger = None
    /\ client_sessions = [c \in {} |-> <<>>]
    /\ data_dir = PathState("/data", "dir", TRUE, TRUE, TRUE)
    /\ logger = DataLogger_new(data_dir)
    /\ call = NoCall
    /\ \/ \E v \in ClientCommands : codec = Value("ClientCommand", v)
       \/ \E v \in Publications : codec = Value("Publication", v)
       \/ \E v \in LogEntries : codec = Value("DataLogEntry", v)
       \/ \E v \in LogIndexes : codec = Value("HashSet", v)

CodecRest == <<brokerVars, loggerVars, sessionVars, endpointVars, hb, wire,
               putRes, logReqs, client_sessions, data_dir, logger, call,
               data_logger, stream, log_dirs, socket, held>>

\* The sender writes the value into a binary frame
Encode ==
    /\ codec.stage = "value"
    /\ \E f \in to_vec(codec.value) :
          codec' = [codec EXCEPT !.stage = "encoded", !.frame = f]
    /\ UNCHANGED CodecRest

\* The receiver reads the frame
Decode ==
    /\ codec.stage = "encoded"
    /\ codec' = [codec EXCEPT !.stage = "decoded",
                              !.decoded = from_slice(codec.T, codec.frame)]
    /\ UNCHANGED CodecRest

\* The receiver writes what it has read into a frame again
Reencode ==
    /\ codec.stage = "decoded"
    /\ \E f \in to_vec(codec.decoded) :
          codec' = [codec EXCEPT !.stage = "reencoded", !.reframe = f]
    /\ UNCHANGED CodecRest

NextCodec == Encode \/ Decode \/ Reencode

SpecCodec == InitCodec /\ [][NextCodec]_vars

\* ================================================================ properties
\* The step in which the PubSubServer handles the ClientMessage of `kind` at
\* the head of its mailbox
Handles(kind) == IsClientMessage(kind) /\ brokerQ' = Tail(brokerQ)

\* What a step appends to the mailbox of endpoint a
NewMsgs(a) == SubSeq(inbox'[a], Len(inbox[a]) + 1, Len(inbox'[a]))

\* The step enqueues a Put at the DataLogger
PutEnqueued ==
    /\ Len(logQ') = Len(logQ) + 1
    /\ logQ'[Len(logQ')].type = "Put"

\* The step is a tick of the heartbeat of endpoint a
Tick(a) == hb'[a] = hb[a] + HEARTBEAT_INTERVAL

\* The step in which the StreamHandler of endpoint a is given the frame at
\* the head of its stream, which is of the given type
Given(a, type) ==
    /\ Receives(a, type)
    /\ Len(stream'[a]) < Len(stream[a])
    /\ ~Tick(a)

IsPublication(m) == m.type = "Publication"

\* The publications a step delivers to the running endpoint registered for
\* client c in the address book of the PubSubServer
Notified(c) ==
    IF sessions[c] # None /\ sessions[c] \in connected
    THEN SelectSeq(NewMsgs(sessions[c]), IsPublication)
    ELSE <<>>

\* The subscribers of subscription s, none when there is no record
Subscribers(s) == IF store[s] = NoSub THEN {} ELSE Range(store[s].subscribers)

HasPublication(c, p) ==
    \E i \in DOMAIN inbox[c] : IsPublication(inbox[c][i]) /\ inbox[c][i].id = p

\* C1: a successful Submit on s delivers exactly one notification, the same
\* publication with the same fresh id, to every subscriber of s that has a
\* running endpoint registered, and none to any other client.
C1_FanOut ==
    [][(Handles("Submit") /\ nextPub' = nextPub + 1) =>
         LET msg == Head(brokerQ)
             note == PublicationMsg([id |-> nextPub, data |-> msg.param.data])
         IN  \A c \in Clients :
               /\ (c \in Subscribers(msg.param.id) /\ sessions[c] # None
                     /\ sessions[c] \in connected)
                    => Notified(c) = <<note>>
               /\ c \notin Subscribers(msg.param.id)
                    => /\ Notified(c) = <<>>
                       /\ SelectSeq(NewMsgs(c), IsPublication) = <<>>]_vars

\* C1 witness: one publication lies in the mailbox of one client and not in
\* the mailbox of the other, connected and registered, client
C1_Witness ==
    /\ connected = Clients
    /\ \A c \in Clients : sessions[c] = c
    /\ store["s1"] # NoSub /\ store["s1"].subscribers = <<"c1">>
    /\ HasPublication("c1", 1)
    /\ ~HasPublication("c2", 1)

\* C5: the subscribers of s are exactly the clients whose most recent handled
\* subscription command on s is an Add.
C5_LastCommand ==
    \A s \in SubIds : Subscribers(s) = {c \in Clients : adds[s][c] >= 1}

\* C5 witness: c1 created s1 by an Add and has left it by a Remove, c2 is in
C5_Witness ==
    /\ store["s1"] # NoSub
    /\ store["s1"].name = "c1"
    /\ store["s1"].subscribers = <<"c2">>
    /\ adds["s1"]["c1"] = 0

\* C6: subscribing twice is idempotent: a client that added itself again is
\* in the subscribers once, and a Submit delivers exactly one notification
\* to it.
C6_Idempotent ==
    [][/\ \A s \in SubIds, c \in Clients :
            adds'[s][c] >= 2 => Count(store'[s].subscribers, c) = 1
       /\ (Handles("Submit") /\ nextPub' = nextPub + 1) =>
            \A c \in Clients :
               (adds[Head(brokerQ).param.id][c] >= 2 /\ sessions[c] # None
                  /\ sessions[c] \in connected)
                 => Len(Notified(c)) = 1]_vars

\* C6 witness: c1 has added itself twice and holds the one notification of a
\* publication in its mailbox
C6_Witness ==
    /\ adds["s1"]["c1"] = 2
    /\ inbox["c1"] = <<PublicationMsg([id |-> 1, data |-> "b1"])>>

\* C7: a subscription record with no subscribers is never stored (the Remove
\* of the last subscriber deletes the record).
C7_NoEmptyRecord ==
    \A s \in SubIds : store[s] # NoSub => store[s].subscribers # <<>>

\* C8: a Remove by a client that is not a subscriber of the subscription, or
\* for a subscription that does not exist, returns an error and leaves the
\* store as it is.
C8_NotSubscribed ==
    [][(Handles("Remove")
          /\ Head(brokerQ).id \notin Subscribers(Head(brokerQ).param))
         => (handled' = "Err" /\ store' = store)]_vars

\* C9: a Submit to an id that is not in the store returns an error, sends no
\* Put to the DataLogger (no file, index unchanged) and delivers nothing.
C9_UnknownSubscription ==
    [][(Handles("Submit") /\ fetch(store, Head(brokerQ).param.id) = NoSub)
         => /\ handled' = "Err"
            /\ UNCHANGED <<logQ, disk, log_index, inbox, store, nextPub>>]_vars

\* C9 witness: a Submit has returned an error while a client was connected
\* and registered
C9_Witness ==
    /\ handled = "Err"
    /\ store["s1"] = NoSub
    /\ sessions["c1"] = "c1" /\ "c1" \in connected

\* The step in which the DataLogger handles a DataLogPut and returns an Err
PutFails ==
    /\ logQ # <<>> /\ Head(logQ).type = "Put"
    /\ logQ' = Tail(logQ)
    /\ putRes' # "Ok"

\* C10: when the Put of a publication fails, its Submit has not returned Ok
\* and no endpoint holds a notification of it.
C10_PersistBeforeIssue ==
    [][PutFails =>
         LET p == Head(logQ).entries[1].id
         IN  /\ pubs[p] = NoPub
             /\ \A c \in Clients : ~HasPublication(c, p)]_vars

\* C2: a GetLogEntries(s, [p]) that a client sends after it has received the
\* notification of p is answered with p.
C2_IssuedIsReadable ==
    \A d \in logDone :
       (/\ d.req.type = "Fetch" /\ d.req.answers # 0
        /\ d.req.data_log_id = pubs[d.req.answers].sub)
         => /\ d.result \notin {"FileSystem", "SerializerError"}
            /\ d.result = "Ok" =>
                 \E i \in DOMAIN d.reply.entries : d.reply.entries[i].id = d.req.answers

\* C3: a GetLogEntries(s, [p]) sent after the Submit of b on s that produced p
\* has returned Ok finds the entry, and the entry is the publication p with
\* the data b.
C3_LoggedAsSubmitted ==
    \A d \in logDone :
       (/\ d.req.type = "Fetch" /\ Len(d.req.entries) = 1
        /\ d.req.entries[1] <= d.req.issued
        /\ pubs[d.req.entries[1]].sub = d.req.data_log_id)
         => /\ d.result \notin {"FileSystem", "SerializerError"}
            /\ d.result = "Ok" =>
                 d.reply.entries = <<[id |-> d.req.entries[1],
                                      data |-> pubs[d.req.entries[1]].data]>>

\* C4: a GetLogIndex(s) sent after n >= 1 Submits on s have returned Ok is
\* answered from the index of s, and the answer holds the ids of all of them.
C4_IndexHoldsSubmitted ==
    \A d \in logDone :
       LET submitted == {p \in 1..d.req.issued : pubs[p].sub = d.req.data_log_id}
       IN  (d.req.type = "Index" /\ submitted # {})
             => /\ d.result # "NoSuchDataLog"
                /\ d.result = "Ok" => submitted \subseteq d.reply.ids

\* C11: when the Put cannot be sent to the DataLogger during a Submit, the
\* Submit returns an error, nothing is delivered to any endpoint, and the
\* PubSubServer keeps running.
C11_SendFailure ==
    [][(Handles("Submit") /\ fetch(store, Head(brokerQ).param.id) # NoSub
          /\ logQ' = logQ)
         => (handled' = "Err" /\ Running' /\ inbox' = inbox)]_vars

\* The step in which the pubsub actor handles the message of `type` at the
\* head of its mailbox
ServiceHandles(type) == IsServiceMessage(type) /\ brokerQ' = Tail(brokerQ)

\* C12: the message forwarded for an Unsubscribe frame is a Remove: once the
\* pubsub actor has handled it, the client it names is not a subscriber of
\* the subscription.
C12_UnsubscribeRemoves ==
    [][(ServiceHandles("ManageSubscription")
          /\ Head(brokerQ).frame = "Unsubscribe")
         => /\ Head(brokerQ).kind = "Remove"
            /\ \/ store'[Head(brokerQ).subscription_id] = NoSub
               \/ Head(brokerQ).client_id
                    \notin Range(store'[Head(brokerQ).subscription_id].subscribers)]_vars

\* C14: a Subscribe, Unsubscribe or SubmitPublication frame is forwarded to
\* the pubsub actor with the client id of the endpoint that received it.
C14_OwnClientId ==
    \A i \in DOMAIN brokerQ :
       brokerQ[i].type \in {"ManageSubscription", "SubmitCommand"}
         => brokerQ[i].client_id = id_of(brokerQ[i].from)

\* C13: the reply to a GetLogIndex or GetLogEntries frame is delivered to the
\* endpoint that received the frame and to no other endpoint.
C13_ReplyToSelf ==
    \A d \in logDone : d.result = "Ok" => d.to = d.req.from

\* C15: a GetLogIndex for a log id without an index entry is answered with
\* the empty set: the requester, registered and running, gets a LogIndex
\* message with no ids.
C15_EmptyIndex ==
    [][\A f \in futures :
          (/\ f.stage = "ready" /\ f.req.type = "Index"
           /\ futures' = futures \ {f}
           /\ f.addr # None /\ f.addr \in connected
           /\ f.req.data_log_id \notin DOMAIN log_index)
            => inbox'[f.addr] = Append(inbox[f.addr],
                                       [type |-> "LogIndex", ids |-> {}])]_vars

\* C16: handling a Remove, also the one that leaves a subscription without
\* subscribers, changes nothing of the DataLogger: its index (what GetLogIndex
\* answers from), its files and its mailbox stay as they are.
C16_RemoveKeepsLog ==
    [][Handles("Remove") => UNCHANGED <<log_index, disk, logQ>>]_vars

\* C16 witness: c1, answered for its Remove, has left s1 without subscribers
\* after a publication of s1 was written to the log
C16_Witness ==
    /\ store["s1"] # NoSub /\ store["s1"].subscribers = <<>>
    /\ inbox["c1"] # <<>>
    /\ inbox["c1"][Len(inbox["c1"])] = ResponseMsg("Remove", "s1")
    /\ "s1" \in DOMAIN log_index /\ log_index["s1"] # {}

\* The file of publication p in log s is on disk
OnDisk(s, p) == \E f \in disk : f.log = s /\ f.id = p

\* The file of publication p in log s holds one encoding and nothing else
Readable(s, p) == \E f \in disk : f.log = s /\ f.id = p /\ decodes(f)

\* The error of reading the entries of log s in their order: that of the
\* first entry that cannot be read, FileSystem for a missing file and
\* SerializerError for a file that does not decode; None when all can be read
ReadError(s, entries) ==
    LET bad == {i \in DOMAIN entries : ~Readable(s, entries[i])}
        first == CHOOSE i \in bad : \A j \in bad : i <= j
    IN  IF bad = {} THEN None
        ELSE IF OnDisk(s, entries[first]) THEN "SerializerError" ELSE "FileSystem"

\* C17: a GetLogEntries that names an id without a file ends with a read
\* error (FileSystem, unless an entry before the missing one has a file that
\* does not decode): no reply is sent, not even for the entries before the
\* missing one, the index, the files and the mailbox of the DataLogger are
\* unchanged.
C17_MissingFile ==
    [][\A f \in futures :
          (/\ f.stage = "ready" /\ f.req.type = "Fetch"
           /\ futures' = futures \ {f}
           /\ \E i \in DOMAIN f.req.entries :
                 ~OnDisk(f.req.data_log_id, f.req.entries[i]))
            => /\ inbox' = inbox
               /\ UNCHANGED <<log_index, disk, logQ>>
               /\ \E d \in logDone' :
                     /\ d.req = f.req
                     /\ d.result \in {"FileSystem", "SerializerError"}
                     /\ d.result = ReadError(f.req.data_log_id, f.req.entries)]_vars

\* C17 witness: the request for <<1, 2>>, made when only publication 1 was
\* there, has failed on 2 with the file of 1 on disk and a registered, running
\* recipient; the Put of publication 2 was served afterwards
C17_Witness ==
    \E d \in logDone :
       /\ d.result = "FileSystem"
       /\ d.req.entries = <<1, 2>> /\ d.req.issued = 1
       /\ d.to # None /\ d.to \in connected
       /\ Readable(d.req.data_log_id, 1) /\ Readable(d.req.data_log_id, 2)

\* The step in which the SessionService handles the message of `type` at the
\* head of its mailbox
SessionHandles(type) ==
    sessQ # <<>> /\ Head(sessQ).type = type /\ sessQ' = Tail(sessQ)

\* C18: an InsertSession for a client id replaces the entry the id has: right
\* after it is handled a lookup of the id gives the address of the message,
\* the entries of the other ids are as before, and every id has one address
\* or none.
C18_InsertReplaces ==
    [][SessionHandles("InsertSession") =>
         /\ get_session_addr(registry', Head(sessQ).id) = Head(sessQ).addr
         /\ \A c \in Clients \ {Head(sessQ).id} : registry'[c] = registry[c]
         /\ registry' \in [Clients -> Endpoints \cup {None}]]_vars

\* C18 witness: both connections of client id c1 run, both registrations are
\* handled, and the id resolves to the second connection
C18_Witness ==
    /\ {"c1", "c1b"} \subseteq connected
    /\ sessQ = <<>>
    /\ registry["c1"] = "c1b"

\* C19: a running endpoint whose registration was replaced by a later
\* connection with the same client id stops at its next heartbeat tick.
C19_PreviousDropped ==
    [][\A a \in Endpoints :
          (/\ a \in connected /\ hb'[a] = hb[a] + HEARTBEAT_INTERVAL
           /\ \A i \in DOMAIN sessQ :
                 ~(sessQ[i].type = "InsertSession" /\ sessQ[i].addr = a)
           /\ registry[id_of(a)] # None /\ registry[id_of(a)] # a
           /\ registry[id_of(a)] \in connected)
            => a \notin connected']_vars

\* C20: an endpoint that stops sends a RemoveSession for its client id, and
\* right after the SessionService has handled a RemoveSession a lookup of
\* that id gives no address.
C20_StopUnregisters ==
    [][/\ \A a \in Endpoints :
            (a \in connected /\ a \notin connected')
              => sessQ' = Append(sessQ, [type |-> "RemoveSession", id |-> id_of(a)])
       /\ SessionHandles("RemoveSession")
            => get_session_addr(registry', Head(sessQ).id) = None]_vars

\* C20 witness: the endpoint of c2 was registered, has stopped on its
\* heartbeat timeout, and its RemoveSession is handled
C20_Witness ==
    /\ "c2" \notin connected
    /\ hb["c2"] > CLIENT_TIMEOUT
    /\ sessQ = <<>>
    /\ registry["c2"] = None

C25_IndexOnDisk ==
    \A s \in DOMAIN log_index : \A p \in log_index[s] :
       \E f \in disk : f.log = s /\ f.id = p /\ decodes(f)

\* C25 witness: the Put of publication 1 failed and the Put of publication 2
\* was written: 2 is in the index of s1 and on disk, 1 is in neither
C25_Witness ==
    /\ "s1" \in DOMAIN log_index /\ log_index["s1"] = {2}
    /\ OnDisk("s1", 2) /\ ~OnDisk("s1", 1)
    /\ logQ = <<>>

\* C28: whatever becomes of the command of one client, the PubSubServer runs
\* on after handling it, and the endpoints, registry entries and subscription
\* memberships of the other clients are as before.
C28_Isolation ==
    [][(\E kind \in {"Add", "Remove", "Get", "Submit"} : Handles(kind)) =>
         /\ Running'
         /\ \A c \in Clients \ {Head(brokerQ).id} :
              /\ registry'[c] = registry[c]
              /\ (c \in connected') = (c \in connected)
              /\ \A s \in SubIds :
                   (store'[s] # NoSub /\ c \in Range(store'[s].subscribers))
                     = (c \in Subscribers(s))]_vars

\* The frames the client of endpoint e has yet to receive after a step: the
\* frames written and not yet read, then the frames of the messages in the
\* mailbox of the endpoint
Unread(e) ==
    socket'[e] \o [i \in 1..Len(inbox'[e]) |-> BinaryFrame(inbox'[e][i])]

\* The step in which the pubsub actor handles the SubmitPublication frame of
\* a subscriber of the subscription, sent under its own id by its registered
\* and running endpoint, and enqueues the Put of the publication
OwnSubmit ==
    /\ ServiceHandles("SubmitCommand")
    /\ PutEnqueued
    /\ LET msg == Head(brokerQ) IN
       /\ msg.client_id = id_of(msg.from)
       /\ msg.client_id \in Subscribers(msg.subscription_id)
       /\ registry[msg.client_id] = msg.from /\ msg.from \in connected

C30_SilentSuccess ==
    [][/\ (/\ Len(brokerQ') = Len(brokerQ) + 1
           /\ brokerQ'[Len(brokerQ')].type = "ManageSubscription")
            => UNCHANGED <<wire, socket, inbox>>
       /\ (ServiceHandles("ManageSubscription") /\ handled' = "Ok")
            => UNCHANGED <<wire, socket, inbox>>
       /\ \A e \in Clients :
            (wire'[e] # wire[e] /\ wire'[e].type = "Binary")
              => brokerQ' = brokerQ]_vars

\* C30 witness: the Subscribe of c1 was forwarded and handled with Ok, and
\* nothing was written to c1 or put into the mailbox of its endpoint; the
\* frame of c2 was refused and answered with a binary frame
C30_Witness ==
    /\ {"c1", "c2"} \subseteq connected
    /\ adds["s1"]["c1"] = 1 /\ handled = "Ok" /\ brokerQ = <<>>
    /\ nextPub = 1
    /\ wire["c1"] = NoFrame /\ socket["c1"] = <<>> /\ inbox["c1"] = <<>>
    /\ wire["c2"] = BinaryFrame("send failed")

\* C21: an endpoint stops at the first heartbeat tick at which more than
\* CLIENT_TIMEOUT has passed since the last frame of its client, so no running
\* endpoint has been silent for CLIENT_TIMEOUT plus a heartbeat interval.
C21_TimeoutStops ==
    /\ [](\A a \in connected : hb[a] < CLIENT_TIMEOUT + HEARTBEAT_INTERVAL)
    /\ [][\A a \in Endpoints :
            (/\ a \in connected /\ hb'[a] = hb[a] + HEARTBEAT_INTERVAL
             /\ hb'[a] > CLIENT_TIMEOUT)
              => a \notin connected']_vars

\* C21 witness: the endpoint of c1 has stopped at the tick after its client
\* was silent for more than CLIENT_TIMEOUT, a second endpoint runs on
C21_Witness ==
    /\ "c1" \notin connected
    /\ hb["c1"] > CLIENT_TIMEOUT
    /\ "c1b" \in connected

\* C22: at a heartbeat tick at which no more than CLIENT_TIMEOUT has passed
\* since the last frame of the client, the endpoint runs on and writes a ping.
C22_PingWithinTimeout ==
    [][\A a \in Endpoints :
          (/\ a \in connected /\ hb'[a] = hb[a] + HEARTBEAT_INTERVAL
           /\ hb'[a] <= CLIENT_TIMEOUT)
            => (a \in connected' /\ wire'[a] = PingFrame)]_vars

\* C22 witness: the endpoint of c1 runs and has written a ping at the tick at
\* which exactly CLIENT_TIMEOUT had passed since the last frame
C22_Witness ==
    /\ "c1" \in connected
    /\ hb["c1"] = CLIENT_TIMEOUT
    /\ wire["c1"] = PingFrame

\* C24: when the StreamHandler of an endpoint is given a Text frame the
\* endpoint writes the fixed text, and when it is given a Binary frame that
\* does not decode it writes the decode error as a binary frame; the endpoint
\* runs on and nothing is sent to the PubSubServer or the DataLogger.
C24_InformationalFrame ==
    [][\A a \in Endpoints :
          /\ Given(a, "Text") =>
               /\ wire'[a] = TextFrame("Text messages not implemented")
               /\ a \in connected'
               /\ UNCHANGED <<brokerQ, logQ>>
          /\ Given(a, "Binary") =>
               /\ wire'[a] = BinaryFrame("decode error")
               /\ a \in connected'
               /\ UNCHANGED <<brokerQ, logQ>>]_vars

\* C24 witness: the clients of c1 and c2 have sent an undecodable and a text
\* frame; both frames were given to the endpoints, which run on, c1 after
\* the decode error and c2 after the fixed text as the last frame written
C24_Witness ==
    /\ {"c1", "c2"} \subseteq connected
    /\ stream["c1"] = <<>> /\ stream["c2"] = <<>>
    /\ wire["c1"] = BinaryFrame("decode error")
    /\ wire["c2"] = TextFrame("Text messages not implemented")

\* The ids the index holds for log s, none when it has no entry for s
IndexOf(index, s) == IF s \in DOMAIN index THEN index[s] ELSE {}

\* The file begins with the encoding of item
HoldsEncoding(f, item) ==
    /\ Len(f.bytes) >= encoded_len(item)
    /\ SubSeq(f.bytes, 1, encoded_len(item)) = encoded(item)

\* C26: a Put of several publications ends at the first entry it cannot
\* write: it returns Ok only when all were written and an Err when one was
\* not; the entries before the failing one have their files, holding what
\* was written (unless the failing entry has the same id and so the same
\* file), and are in the index; the failing entry and those after it
\* add nothing to the index, and no file but that of the failing entry is
\* touched for them (a to_writer that fails leaves that file opened, with the
\* part it wrote).
C26_PartialPut ==
    [][(logQ # <<>> /\ Head(logQ).type = "Put" /\ logQ' = Tail(logQ)) =>
         LET request == Head(logQ)
             s == request.data_log_id
             n == Len(request.entries)
         IN  \E k \in 0..n :
               LET done == {request.entries[i].id : i \in 1..k}
                   failing == IF k < n THEN {request.entries[k + 1].id} ELSE {}
               IN
               /\ putRes' = "Ok" => k = n
               /\ k < n => putRes' \in {"FileSystem", "SerializerError"}
               /\ \A i \in 1..k :
                    request.entries[i].id \notin failing =>
                      \E j \in i..k : \E f \in disk' :
                         /\ request.entries[j].id = request.entries[i].id
                         /\ f.log = s /\ f.id = request.entries[i].id
                         /\ HoldsEncoding(f, request.entries[j])
               /\ IndexOf(log_index', s) = IndexOf(log_index, s) \cup done
               /\ \A f \in disk :
                    (f.log # s \/ f.id \notin done \cup failing) => f \in disk'
               /\ \A f \in disk' \ disk :
                    /\ f.log = s
                    /\ \/ f.id \in done
                       \/ f.id \in failing /\ putRes' = "SerializerError"]_vars

\* C26 witness: a Put of two publications has failed at its second entry
\* when a part of it was written: the first, publication 1, is on disk and
\* in the index, the file of publication 2 holds the part and 2 is not in
\* the index
C26_Witness ==
    /\ putRes = "SerializerError"
    /\ logQ = <<>>
    /\ disk = {File("s1", [id |-> 1, data |-> "b1"]),
               [log |-> "s1", id |-> 2, bytes |-> <<"head", "y">>]}
    /\ log_index = [s \in {"s1"} |-> {1}]

\* C27: a GetLogIndex for a log with entry files on disk, asked by a
\* registered and running client, is answered with the ids of all those
\* files, also when the DataLogger was started on a data directory that held
\* them already.
C27_IndexAfterRestart ==
    [][\A f \in futures :
          (/\ f.stage = "ready" /\ f.req.type = "Index"
           /\ futures' = futures \ {f} /\ logDone' # logDone
           /\ f.addr # None /\ f.addr \in connected
           /\ \E p \in PubIds : OnDisk(f.req.data_log_id, p))
            => inbox'[f.addr] =
                 Append(inbox[f.addr],
                        [type |-> "LogIndex",
                         ids |-> {p \in PubIds : OnDisk(f.req.data_log_id, p)}])]_vars

\* C35: within one Submit the Put of the publication is enqueued at the
\* DataLogger before any subscriber is sent the publication: every step that
\* puts a publication into the mailbox of an endpoint has appended the Put of
\* that publication, for the subscription submitted to, to the mailbox of the
\* DataLogger, and a Submit whose Put is refused delivers nothing.
C35_PutBeforeIssue ==
    [][\A a \in Endpoints : \A i \in DOMAIN NewMsgs(a) :
          IsPublication(NewMsgs(a)[i]) =>
            LET m == NewMsgs(a)[i] IN
            /\ Handles("Submit")
            /\ Len(logQ') = Len(logQ) + 1
            /\ logQ'[Len(logQ')] = DataLogPut(Head(brokerQ).param.id,
                                              [id |-> m.id, data |-> m.data])]_vars

\* C35 witness: the Submit of b1 to s1 has been handled; its Put waits in the
\* mailbox of the DataLogger and subscriber c1 holds the publication
C35_Witness ==
    /\ logQ = <<DataLogPut("s1", [id |-> 1, data |-> "b1"])>>
    /\ inbox["c1"] # <<>>
    /\ inbox["c1"][1] = PublicationMsg([id |-> 1, data |-> "b1"])

\* C36: a running endpoint whose InsertSession has been handled, and whose
\* address is the entry of its client id, is still what a lookup of its client
\* id gives after the SessionService has handled the RemoveSession of an
\* earlier endpoint that used the same client id and stopped.
C36_LookupRunning ==
    [][SessionHandles("RemoveSession") =>
         \A a \in connected :
            (/\ get_session_addr(registry, id_of(a)) = a
             /\ \A i \in DOMAIN sessQ :
                   ~(sessQ[i].type = "InsertSession" /\ sessQ[i].addr = a))
              => get_session_addr(registry', id_of(a)) = a]_vars

\* C37: an Add of client c for a subscription id s that the store does not
\* hold creates the record with id s, the string form of c as its name and c
\* as its only subscriber; for an s the store holds, the record keeps its id,
\* its name, its log and its subscribers in their order, and c is added to
\* them when it is not among them.  No other record changes.
C37_AddCreatesOrJoins ==
    [][Handles("Add") =>
         LET c == Head(brokerQ).id
             s == Head(brokerQ).param
             old == fetch(store, s)
             new == fetch(store', s)
         IN  /\ old = NoSub =>
                  new = [id |-> s, name |-> c, subscribers |-> <<c>>, log |-> {}]
             /\ old # NoSub =>
                  /\ new # NoSub
                  /\ new.id = old.id /\ new.name = old.name /\ new.log = old.log
                  /\ new.subscribers = IF c \in Range(old.subscribers)
                                       THEN old.subscribers
                                       ELSE Append(old.subscribers, c)
             /\ \A t \in SubIds \ {s} : store'[t] = store[t]]_vars

\* C37 witness: s1 was created by the Add of c1 and joined by c2 afterwards:
\* it carries the name of c1 and both subscribers
C37_Witness ==
    /\ store["s1"] # NoSub
    /\ store["s1"].id = "s1" /\ store["s1"].name = "c1"
    /\ store["s1"].subscribers = <<"c1", "c2">>
    /\ brokerQ = <<>> /\ handled = "Ok"

C40_NoRecipient ==
    [][\A f \in futures :
          (f.stage = "ready" /\ futures' = futures \ {f} /\ f.addr = None)
            => /\ inbox' = inbox
               /\ log_index' = log_index
               /\ \E d \in logDone' :
                     d.req = f.req /\ d.result = "NoRecipient"]_vars

\* C40, amended: such a request sends no reply and leaves the index as it
\* is; it ends with the DataLogRequest error of the missing recipient, except
\* for a GetLogEntries that names an id whose file is missing or does not
\* decode, which ends with the error of the read (FileSystem or
\* SerializerError), the files being read before the recipient is looked at.
C40_NoRecipientOrReadError ==
    [][\A f \in futures :
          (f.stage = "ready" /\ futures' = futures \ {f} /\ f.addr = None)
            => /\ inbox' = inbox
               /\ log_index' = log_index
               /\ \E d \in logDone' :
                     /\ d.req = f.req
                     /\ d.result =
                          IF /\ f.req.type = "Fetch"
                             /\ ReadError(f.req.data_log_id, f.req.entries) # None
                          THEN ReadError(f.req.data_log_id, f.req.entries)
                          ELSE "NoRecipient"]_vars

\* C40 witness: a GetLogEntries for a client id without a registry entry,
\* naming publication 1 which has no file, has ended with the FileSystem
\* error, and nothing was sent
C40_Witness ==
    \E d \in logDone :
       /\ d.req.type = "Fetch" /\ d.req.entries = <<1>>
       /\ d.to = None /\ d.result = "FileSystem"
       /\ ~OnDisk(d.req.data_log_id, 1)
       /\ \A a \in Endpoints : inbox[a] = <<>>

\* C31: DataLogger::new returns a logger exactly when the path is a directory
\* that exists and can be read, written and searched by the server; the
\* logger then has an empty index and that path as its data directory.  In
\* every other case the result is the FileSystem error and there is no
\* logger.
C31_NewLogger ==
    logger # NoLogger =>
       /\ logger.ok = (/\ data_dir.kind = "dir"
                       /\ data_dir.read /\ data_dir.write /\ data_dir.execute)
       /\ logger.ok => /\ logger.log_index = [s \in {} |-> {}]
                       /\ logger.data_dir = data_dir.path
       /\ ~logger.ok => logger = [ok |-> FALSE, err |-> "FileSystem"]

\* C31 witness: DataLogger::new was called on /frank/nord, which does not
\* exist, and returned the error
C31_Witness ==
    /\ data_dir.path = "/frank/nord" /\ data_dir.kind = "missing"
    /\ logger # NoLogger /\ ~logger.ok /\ logger.err = "FileSystem"

\* C33: right after update(sub), fetch(sub.id) returns a record equal to sub,
\* whatever record the id had before; right after remove(id), fetch(id) is
\* the "No such entry" error and index() does not list id.
C33_UpdateFetchRemove ==
    /\ call.op = "Subscriptions::update" =>
          /\ fetch(store, call.arg.id) = call.arg
          /\ call.arg.id \in Subscriptions_index(store)
    /\ call.op = "Subscriptions::remove" =>
          /\ fetch(store, call.arg) = NoSub
          /\ call.arg \notin Subscriptions_index(store)

\* C33 witness: s1 was removed from a store that holds a record of s2, which
\* is all the index lists
C33_Witness ==
    /\ call.op = "Subscriptions::remove" /\ call.arg = "s1"
    /\ store["s2"] # NoSub /\ store["s2"].subscribers = <<"c2", "c1">>
    /\ Subscriptions_index(store) = {"s2"}

\* C34: get_or_insert(c) returns the session stored for c and leaves the
\* store as it is; without an entry for c it first inserts one with an empty
\* subscription list and returns that.  After update(session) a
\* get_or_insert of its client returns the session given, and after remove(c)
\* the store has no entry for c.  No call touches the entry of another
\* client.
C34_SessionStore ==
    [][/\ call'.op = "Sessions::get_or_insert" =>
            LET c == call'.arg IN
            /\ c \in DOMAIN client_sessions =>
                  /\ call'.ret = Session(c, client_sessions[c])
                  /\ client_sessions' = client_sessions
            /\ c \notin DOMAIN client_sessions =>
                  /\ call'.ret = Session(c, <<>>)
                  /\ DOMAIN client_sessions' = DOMAIN client_sessions \cup {c}
                  /\ client_sessions'[c] = <<>>
            /\ \A d \in DOMAIN client_sessions \ {c} :
                  client_sessions'[d] = client_sessions[d]
       /\ call'.op = "Sessions::update" =>
            /\ Sessions_get_or_insert(client_sessions', call'.arg.client).session
                 = call'.arg
            /\ Sessions_get_or_insert(client_sessions', call'.arg.client).store
                 = client_sessions'
            /\ \A d \in DOMAIN client_sessions \ {call'.arg.client} :
                  d \in DOMAIN client_sessions'
                  /\ client_sessions'[d] = client_sessions[d]
       /\ call'.op = "Sessions::remove" =>
            /\ call'.arg \notin DOMAIN client_sessions'
            /\ \A d \in DOMAIN client_sessions \ {call'.arg} :
                  d \in DOMAIN client_sessions'
                  /\ client_sessions'[d] = client_sessions[d]]_vars

\* C34 witness: the session of c1 was updated to the subscriptions s2, s1 and
\* a get_or_insert of c1 has returned it; c2 has the empty session its
\* get_or_insert made
C34_Witness ==
    /\ call.op = "Sessions::get_or_insert" /\ call.arg = "c1"
    /\ call.ret = Session("c1", <<"s2", "s1">>)
    /\ DOMAIN client_sessions = {"c1", "c2"}
    /\ client_sessions["c2"] = <<>>

\* C32: the value decoded from the frame of a value equals the value, and
\* the frame written from the decoded value is the frame that was decoded,
\* for every ClientCommand and ServerMessage.
C32_RoundTrip ==
    /\ codec.stage \in {"decoded", "reencoded"} => codec.decoded = codec.value
    /\ codec.stage = "reencoded" => codec.reframe = codec.frame

====
